---- MODULE Spec2Model ----
(***************************************************************************)
(* Model of the Empathetic Code Reviewer classification engine:            *)
(* LanguageDetector, SentimentAnalyzer, CategoryClassifier, and the        *)
(* per-comment orchestration of EmpathethicCodeReviewer with the           *)
(* FeedbackGenerator fallback.                                             *)
(*                                                                         *)
(* Texts are TLA+ strings handled character by character (Len, SubSeq,     *)
(* \o), so substring tests, occurrence counts and lower-casing are         *)
(* computed as Python computes them.  Python floats are modelled as exact  *)
(* rationals <<numerator, denominator>> in lowest terms.                   *)
(***************************************************************************)
EXTENDS Integers, Sequences, FiniteSets, TLC

VARIABLES
    language_detector,  \* the attributes of the LanguageDetector instance
    sentiment_analyzer, \* the attributes of the SentimentAnalyzer instance
    category_classifier, \* the attributes of the CategoryClassifier instance
    calls,              \* the analyzer calls made so far on these instances: analyzer, arguments, result
    comment,            \* argument `comment` of analyze_sentiment / classify_comment
    code_snippet,       \* argument `code_snippet` of classify_comment / detect_language
    filename,           \* argument `filename` of detect_language
    sentiment,          \* outcome of the analyze_sentiment call
    classification,     \* outcome of the classify_comment call
    detection,          \* outcome of the detect_language call
    input_data,         \* argument of process_review
    pc,                 \* position of process_review
    language,           \* language detected for the review
    index,              \* 1-based position of the comment being processed
    review_comment,     \* the ReviewComment being built by _analyze_comment
    generation,         \* outcome of the generation service call for it
    processed_comments, \* records appended so far
    report,             \* what process_review returns
    error               \* exception raised out of process_review

analyzerVars == << comment, code_snippet, filename, sentiment, classification, detection >>
reviewVars == << input_data, pc, language, index, review_comment, generation,
                 processed_comments, report, error >>
instanceVars == << language_detector, sentiment_analyzer, category_classifier >>
vars == << instanceVars, calls, analyzerVars, reviewVars >>

-----------------------------------------------------------------------------
(* Python values: a str or None *)

None == [none |-> TRUE, s |-> ""]
Str(s) == [none |-> FALSE, s |-> s]

-----------------------------------------------------------------------------
(* float arithmetic, as exact rationals *)

Abs(x) == IF x < 0 THEN -x ELSE x

RECURSIVE GCD(_, _)
GCD(a, b) == IF b = 0 THEN a ELSE GCD(b, a % b)

Rat(n, d) ==
    LET g == GCD(Abs(n), Abs(d))
        sg == IF d < 0 THEN -1 ELSE 1
    IN  << (sg * n) \div g, (sg * d) \div g >>

RInt(k) == << k, 1 >>
RMul(a, b) == Rat(a[1] * b[1], a[2] * b[2])
RDiv(a, b) == Rat(a[1] * b[2], a[2] * b[1])
RAdd(a, b) == Rat(a[1] * b[2] + b[1] * a[2], a[2] * b[2])
RSub(a, b) == Rat(a[1] * b[2] - b[1] * a[2], a[2] * b[2])
RLt(a, b) == a[1] * b[2] < b[1] * a[2]
RLe(a, b) == a[1] * b[2] <= b[1] * a[2]
RMin(a, b) == IF RLt(b, a) THEN b ELSE a
IntMin(a, b) == IF b < a THEN b ELSE a

-----------------------------------------------------------------------------
(* str operations *)

UpperLetters == "ABCDEFGHIJKLMNOPQRSTUVWXYZ"
LowerLetters == "abcdefghijklmnopqrstuvwxyz"
Whitespace == {" ", "\t", "\n", "\r", "\f"}

LowerChar(c) ==
    IF \E i \in 1..Len(UpperLetters) : SubSeq(UpperLetters, i, i) = c
    THEN LET i == CHOOSE j \in 1..Len(UpperLetters) : SubSeq(UpperLetters, j, j) = c
         IN  SubSeq(LowerLetters, i, i)
    ELSE c

RECURSIVE LowerFrom(_, _)
LowerFrom(s, i) ==
    IF i > Len(s) THEN "" ELSE LowerChar(SubSeq(s, i, i)) \o LowerFrom(s, i + 1)

\* str.lower()
Lower(s) == LowerFrom(s, 1)

\* `p in s`
Contains(p, s) ==
    \E i \in 1..(Len(s) - Len(p) + 1) : SubSeq(s, i, i + Len(p) - 1) = p

RECURSIVE CountFrom(_, _, _)
CountFrom(p, s, i) ==
    IF i + Len(p) - 1 > Len(s) THEN 0
    ELSE IF SubSeq(s, i, i + Len(p) - 1) = p
         THEN 1 + CountFrom(p, s, i + Len(p))
         ELSE CountFrom(p, s, i + 1)

\* str.count(p): non-overlapping occurrences, scanning left to right
Count(p, s) == CountFrom(p, s, 1)

\* str.endswith(p)
EndsWith(s, p) ==
    Len(p) <= Len(s) /\ SubSeq(s, Len(s) - Len(p) + 1, Len(s)) = p

IsSpace(s, i) == SubSeq(s, i, i) \in Whitespace

\* str.strip()
Strip(s) ==
    IF \A i \in 1..Len(s) : IsSpace(s, i) THEN ""
    ELSE LET first == CHOOSE i \in 1..Len(s) :
                          ~IsSpace(s, i) /\ \A j \in 1..(i - 1) : IsSpace(s, j)
             last == CHOOSE i \in 1..Len(s) :
                          ~IsSpace(s, i) /\ \A j \in (i + 1)..Len(s) : IsSpace(s, j)
         IN  SubSeq(s, first, last)

\* str.startswith(p)
StartsWith(s, p) == Len(p) <= Len(s) /\ SubSeq(s, 1, Len(p)) = p

RECURSIVE Split(_, _)
\* str.split(sep) for a one-character separator
Split(s, sep) ==
    IF \E i \in 1..Len(s) : SubSeq(s, i, i) = sep
    THEN LET i == CHOOSE k \in 1..Len(s) :
                      SubSeq(s, k, k) = sep /\ \A j \in 1..(k - 1) : SubSeq(s, j, j) # sep
         IN  << SubSeq(s, 1, i - 1) >> \o Split(SubSeq(s, i + 1, Len(s)), sep)
    ELSE << s >>

RECURSIVE JoinFrom(_, _, _)
JoinFrom(sep, parts, i) ==
    IF i > Len(parts) THEN ""
    ELSE IF i = Len(parts) THEN parts[i]
    ELSE parts[i] \o sep \o JoinFrom(sep, parts, i + 1)

\* sep.join(parts)
Join(sep, parts) == JoinFrom(sep, parts, 1)

RECURSIVE RemoveFrom(_, _, _)
RemoveFrom(s, old, i) ==
    IF i > Len(s) THEN ""
    ELSE IF i + Len(old) - 1 <= Len(s) /\ SubSeq(s, i, i + Len(old) - 1) = old
         THEN RemoveFrom(s, old, i + Len(old))
         ELSE SubSeq(s, i, i) \o RemoveFrom(s, old, i + 1)

\* str.replace(old, '')
Remove(s, old) == RemoveFrom(s, old, 1)

\* s[a:-b] for a, b > 0
Slice(s, a, b) == SubSeq(s, a + 1, Len(s) - b)

\* truthiness of a str-or-None value
Truthy(v) == ~v.none /\ v.s # ""

-----------------------------------------------------------------------------
(* closed label sets (core/models.py) *)

SeverityLevel == {"critical", "high", "medium", "low"}
CategoryType == {"performance", "readability", "convention", "logic",
                 "security", "maintainability", "general"}
ImpactLevel == {"high", "medium", "low"}

-----------------------------------------------------------------------------
(* pattern tables as _setup_patterns builds them; each is an ordered       *)
(* mapping, kept as a sequence                                             *)

SentimentAnalyzer_severity_patterns ==
  << [ label |-> "critical",
        patterns |->
          << "terrible", "awful", "horrible", "disaster", "broken",
             "completely wrong", "garbage", "trash", "useless", "stupid" >>,
        weight |-> <<4, 1>> ],
     [ label |-> "high",
        patterns |->
          << "bad", "wrong", "inefficient", "poor", "don't", "never", "avoid",
             "terrible", "horrible", "ugly", "messy" >>,
        weight |-> <<3, 1>> ],
     [ label |-> "medium",
        patterns |->
          << "should", "better", "improve", "consider", "prefer", "recommend",
             "change", "fix", "update", "modify" >>,
        weight |-> <<2, 1>> ],
     [ label |-> "low",
        patterns |->
          << "could", "might", "perhaps", "suggestion", "minor", "optional",
             "nice to have", "consider", "maybe" >>,
        weight |-> <<1, 1>> ] >>
SentimentAnalyzer_positive_indicators ==
  << "good", "nice", "great", "excellent", "well done", "solid", "clean", "clear",
     "readable", "elegant", "smart" >>
SentimentAnalyzer_constructive_indicators ==
  << "suggest", "recommend", "consider", "perhaps", "maybe", "what if",
     "how about", "you could", "try", "think about" >>
SentimentAnalyzer_intensity_modifiers ==
  << <<"very", <<3, 2>>>>,
     <<"extremely", <<2, 1>>>>,
     <<"really", <<13, 10>>>>,
     <<"quite", <<6, 5>>>>,
     <<"somewhat", <<4, 5>>>>,
     <<"slightly", <<3, 5>>>>,
     <<"a bit", <<7, 10>>>>,
     <<"kind of", <<4, 5>>>> >>
CategoryClassifier_category_patterns ==
  << [ label |-> "performance",
        patterns |->
          << "slow", "inefficient", "performance", "loop", "complexity",
             "optimization", "memory", "cpu", "algorithm", "big-o", "scalability",
             "bottleneck", "time complexity", "space complexity", "optimization",
             "caching", "lazy loading", "eager loading", "n+1",
             "query optimization" >>,
        weight |-> <<3, 1>>,
        typical_impact |-> "high" ],
     [ label |-> "readability",
        patterns |->
          << "name", "variable", "readable", "clear", "confusing", "understand",
             "descriptive", "meaningful", "self-documenting", "clarity",
             "comment", "documentation", "explain", "verbose", "concise",
             "naming", "identifier", "abbreviation" >>,
        weight |-> <<2, 1>>,
        typical_impact |-> "medium" ],
     [ label |-> "convention",
        patterns |->
          << "convention", "style", "pep", "format", "standard", "guideline",
             "consistent", "coding standard", "best practice", "linting",
             "formatting", "indentation", "spacing", "camelcase", "snake_case",
             "pascal case", "kebab-case" >>,
        weight |-> <<3, 2>>,
        typical_impact |-> "low" ],
     [ label |-> "logic",
        patterns |->
          << "logic", "bug", "error", "wrong", "issue", "condition", "boolean",
             "control flow", "branch", "edge case", "null check", "validation",
             "exception", "handling", "try-catch", "if-else", "switch" >>,
        weight |-> <<4, 1>>,
        typical_impact |-> "high" ],
     [ label |-> "security",
        patterns |->
          << "security", "vulnerability", "injection", "validation", "sanitize",
             "authentication", "authorization", "xss", "csrf", "sql injection",
             "input validation", "output encoding", "privilege escalation",
             "data exposure", "encryption", "hashing" >>,
        weight |-> <<5, 1>>,
        typical_impact |-> "high" ],
     [ label |-> "maintainability",
        patterns |->
          << "maintainable", "refactor", "duplicate", "dry", "solid", "coupling",
             "cohesion", "separation", "modular", "reusable", "extensible",
             "flexible", "testable", "clean code", "technical debt", "code smell",
             "single responsibility" >>,
        weight |-> <<5, 2>>,
        typical_impact |-> "medium" ] >>
CategoryClassifier_context_patterns ==
  << [ label |-> "performance", patterns |->
          << "faster", "slower", "optimize", "benchmark", "profiling" >> ],
     [ label |-> "readability", patterns |->
          << "understand", "confusing", "clear", "obvious", "readable" >> ],
     [ label |-> "convention", patterns |->
          << "style guide", "linter", "format", "consistent", "standard" >> ],
     [ label |-> "logic", patterns |->
          << "bug", "incorrect", "fails", "broken", "wrong result" >> ],
     [ label |-> "security", patterns |->
          << "attack", "exploit", "secure", "safe", "protect" >> ],
     [ label |-> "maintainability", patterns |->
          << "maintain", "extend", "modify", "change", "evolve" >> ] >>
CategoryClassifier_impact_indicators ==
  << [ label |-> "high", indicators |->
          << "critical", "important", "major", "significant", "breaking",
             "production", "user-facing", "data loss", "security", "performance" >> ],
     [ label |-> "medium", indicators |->
          << "moderate", "noticeable", "improvement", "enhancement", "quality",
             "maintainability", "readability", "team", "developer experience" >> ],
     [ label |-> "low", indicators |->
          << "minor", "small", "cosmetic", "style", "formatting", "convention",
             "nice to have", "optional", "preference" >> ] >>
LanguageDetector_language_patterns ==
  << [ label |-> "python",
        patterns |->
          << "def ", "import ", "from ", "class ", ":", "__init__", "self.",
             "elif", "True", "False", "None", "lambda", "print(", "len(" >>,
        strong_indicators |->
          << "def ", "import ", "__init__", "self." >>,
        file_extensions |-> << ".py", ".pyw" >> ],
     [ label |-> "javascript",
        patterns |->
          << "function", "const ", "let ", "var ", "=>", "console.log",
             "document.", "window.", "typeof", "undefined", "null", "===", "!==" >>,
        strong_indicators |->
          << "function", "const ", "let ", "=>" >>,
        file_extensions |-> << ".js", ".mjs" >> ],
     [ label |-> "typescript",
        patterns |->
          << "interface", "type ", ": string", ": number", ": boolean",
             "implements", "extends", "generic", "namespace", "export " >>,
        strong_indicators |->
          << "interface", ": string", ": number", "implements" >>,
        file_extensions |-> << ".ts", ".tsx" >> ],
     [ label |-> "java",
        patterns |->
          << "public class", "private ", "protected ", "public static void",
             "import java.", "System.out.", "@Override", "throws", "extends" >>,
        strong_indicators |->
          << "public class", "public static void", "import java." >>,
        file_extensions |-> << ".java" >> ],
     [ label |-> "cpp",
        patterns |->
          << "#include", "int main", "std::", "cout", "cin", "namespace",
             "template", "class", "struct", "using namespace" >>,
        strong_indicators |->
          << "#include", "int main", "std::", "using namespace" >>,
        file_extensions |-> << ".cpp", ".cc", ".cxx", ".h", ".hpp" >> ],
     [ label |-> "csharp",
        patterns |->
          << "using System", "public class", "private ", "public ",
             "Console.WriteLine", "string", "int", "bool", "namespace" >>,
        strong_indicators |->
          << "using System", "Console.WriteLine", "namespace" >>,
        file_extensions |-> << ".cs" >> ],
     [ label |-> "go",
        patterns |->
          << "package ", "import (", "func ", "var ", "type ", "struct",
             "interface", "go ", "defer", "chan" >>,
        strong_indicators |->
          << "package ", "func ", "go ", "defer" >>,
        file_extensions |-> << ".go" >> ],
     [ label |-> "rust",
        patterns |->
          << "fn ", "let ", "mut ", "struct", "enum", "impl", "trait", "use ",
             "mod ", "pub ", "match" >>,
        strong_indicators |->
          << "fn ", "let mut", "impl", "trait" >>,
        file_extensions |-> << ".rs" >> ] >>

-----------------------------------------------------------------------------
(* the analyzer instances: __init__ calls _setup_patterns, which assigns   *)
(* the tables to attributes; the methods read the attributes               *)

SentimentAnalyzer ==
    [severity_patterns |-> SentimentAnalyzer_severity_patterns,
     positive_indicators |-> SentimentAnalyzer_positive_indicators,
     intensity_modifiers |-> SentimentAnalyzer_intensity_modifiers,
     constructive_indicators |-> SentimentAnalyzer_constructive_indicators]

CategoryClassifier ==
    [category_patterns |-> CategoryClassifier_category_patterns,
     context_patterns |-> CategoryClassifier_context_patterns,
     impact_indicators |-> CategoryClassifier_impact_indicators]

LanguageDetector ==
    [language_patterns |-> LanguageDetector_language_patterns]

_initialize_components ==
    /\ language_detector = LanguageDetector
    /\ sentiment_analyzer = SentimentAnalyzer
    /\ category_classifier = CategoryClassifier

severity_patterns == sentiment_analyzer.severity_patterns
positive_indicators == sentiment_analyzer.positive_indicators
intensity_modifiers == sentiment_analyzer.intensity_modifiers
constructive_indicators == sentiment_analyzer.constructive_indicators
category_patterns == category_classifier.category_patterns
context_patterns == category_classifier.context_patterns
impact_indicators == category_classifier.impact_indicators
language_patterns == language_detector.language_patterns

-----------------------------------------------------------------------------
(* Python built-ins over an ordered dict of scores, kept as a sequence of  *)
(* [label, score] entries in insertion order                               *)

RECURSIVE MaxKeyFrom(_, _, _)
MaxKeyFrom(scores, best, i) ==
    IF i > Len(scores) THEN scores[best].label
    ELSE IF RLt(scores[best].score, scores[i].score)
         THEN MaxKeyFrom(scores, i, i + 1)
         ELSE MaxKeyFrom(scores, best, i + 1)

\* the last key holding the largest value
MaxKeyLastMaximal(scores) ==
    LET i == CHOOSE k \in 1..Len(scores) :
                 /\ \A j \in 1..Len(scores) : RLe(scores[j].score, scores[k].score)
                 /\ \A j \in (k + 1)..Len(scores) :
                        RLt(scores[j].score, scores[k].score)
    IN  scores[i].label

\* max(scores, key=scores.get): the first key holding the largest value
MaxKey(scores) == MaxKeyFrom(scores, 1, 2)

\* max(scores.values())
MaxValue(scores) ==
    LET i == CHOOSE k \in 1..Len(scores) :
                 \A j \in 1..Len(scores) : RLe(scores[j].score, scores[k].score)
    IN  scores[i].score

HasKey(scores, label) == \E i \in 1..Len(scores) : scores[i].label = label

Get(scores, label) ==
    LET i == CHOOSE k \in 1..Len(scores) : scores[k].label = label
    IN  scores[i].score

-----------------------------------------------------------------------------
(* SentimentAnalyzer *)

SeverityCap == 3

RECURSIVE SeverityRawScoreUncapped(_, _, _, _)
\* severity scoring that counts every occurrence
SeverityRawScoreUncapped(patterns, weight, comment_lower, i) ==
    IF i > Len(patterns) THEN RInt(0)
    ELSE LET rest == SeverityRawScoreUncapped(patterns, weight, comment_lower, i + 1)
         IN  IF Contains(patterns[i], comment_lower)
             THEN RAdd(RMul(weight, RInt(Count(patterns[i], comment_lower))), rest)
             ELSE rest

RECURSIVE SeverityRawScore(_, _, _, _)
SeverityRawScore(patterns, weight, comment_lower, i) ==
    IF i > Len(patterns) THEN RInt(0)
    ELSE LET rest == SeverityRawScore(patterns, weight, comment_lower, i + 1)
         IN  IF Contains(patterns[i], comment_lower)
             THEN LET occurrences ==
                          IntMin(Count(patterns[i], comment_lower), SeverityCap)
                  IN  RAdd(RMul(weight, RInt(occurrences)), rest)
             ELSE rest

_calculate_severity_scores(comment_lower) ==
    LET raw == [i \in 1..Len(severity_patterns) |->
                   [label |-> severity_patterns[i].label,
                    score |-> SeverityRawScore(severity_patterns[i].patterns,
                                               severity_patterns[i].weight,
                                               comment_lower, 1),
                    config |-> severity_patterns[i]]]
        scored == SelectSeq(raw, LAMBDA e : RLt(RInt(0), e.score))
    IN  [i \in 1..Len(scored) |->
            [label |-> scored[i].label,
             score |-> RDiv(scored[i].score,
                            RMul(RInt(Len(scored[i].config.patterns)),
                                 scored[i].config.weight))]]

RECURSIVE IntensityFactor(_, _)
IntensityFactor(comment_lower, i) ==
    IF i > Len(intensity_modifiers) THEN RInt(1)
    ELSE IF Contains(intensity_modifiers[i][1], comment_lower)
         THEN RMul(intensity_modifiers[i][2], IntensityFactor(comment_lower, i + 1))
         ELSE IntensityFactor(comment_lower, i + 1)

PositiveFactor(positive_count) ==
    RSub(RInt(1), RMul(<<1, 5>>, RInt(positive_count)))

ConstructiveFactor(constructive_count) ==
    RSub(RInt(1), RMul(<<3, 20>>, RInt(constructive_count)))

\* the modifier pass followed by a clamp at zero
ModifiedScoreClamped(score, positive_count, constructive_count, intensity_factor) ==
    LET s1 == IF positive_count > 0
              THEN RMul(score, PositiveFactor(positive_count)) ELSE score
        s2 == IF constructive_count > 0
              THEN RMul(s1, ConstructiveFactor(constructive_count)) ELSE s1
        s3 == RMul(s2, intensity_factor)
    IN  IF RLt(s3, RInt(0)) THEN RInt(0) ELSE s3

ModifiedScore(score, positive_count, constructive_count, intensity_factor) ==
    LET s1 == IF positive_count > 0
              THEN RMul(score, PositiveFactor(positive_count)) ELSE score
        s2 == IF constructive_count > 0
              THEN RMul(s1, ConstructiveFactor(constructive_count)) ELSE s1
    IN  RMul(s2, intensity_factor)

\* a modifier pass that reduces the first score only for positive indicators
ApplyModifiersFirstScoreOnly(comment_lower, severity_scores, analysis_details) ==
    LET found_positive ==
            SelectSeq(positive_indicators, LAMBDA ind : Contains(ind, comment_lower))
        found_constructive ==
            SelectSeq(constructive_indicators, LAMBDA ind : Contains(ind, comment_lower))
        found_modifiers ==
            SelectSeq(intensity_modifiers, LAMBDA m : Contains(m[1], comment_lower))
        positive_count == Len(found_positive)
        constructive_count == Len(found_constructive)
        intensity_factor == IntensityFactor(comment_lower, 1)
    IN  [modified_scores |->
            [i \in 1..Len(severity_scores) |->
                [label |-> severity_scores[i].label,
                 score |-> ModifiedScore(severity_scores[i].score,
                                         IF i = 1 THEN positive_count ELSE 0,
                                         constructive_count, intensity_factor)]],
         analysis_details |->
            [analysis_details EXCEPT
                !.positive_indicators = @ \o found_positive,
                !.constructive_indicators = @ \o found_constructive,
                !.intensity_modifiers = @ \o found_modifiers]]

\* returns the modified scores together with the analysis_details it filled in
_apply_modifiers(comment_lower, severity_scores, analysis_details) ==
    LET found_positive ==
            SelectSeq(positive_indicators, LAMBDA ind : Contains(ind, comment_lower))
        found_constructive ==
            SelectSeq(constructive_indicators, LAMBDA ind : Contains(ind, comment_lower))
        found_modifiers ==
            SelectSeq(intensity_modifiers, LAMBDA m : Contains(m[1], comment_lower))
        positive_count == Len(found_positive)
        constructive_count == Len(found_constructive)
        intensity_factor == IntensityFactor(comment_lower, 1)
    IN  [modified_scores |->
            [i \in 1..Len(severity_scores) |->
                [label |-> severity_scores[i].label,
                 score |-> ModifiedScore(severity_scores[i].score, positive_count,
                                         constructive_count, intensity_factor)]],
         analysis_details |->
            [analysis_details EXCEPT
                !.positive_indicators = @ \o found_positive,
                !.constructive_indicators = @ \o found_constructive,
                !.intensity_modifiers = @ \o found_modifiers]]

SentimentAnalyzer_calculate_confidence(severity_scores, analysis_details) ==
    IF Len(severity_scores) = 0 THEN <<3, 10>>
    ELSE LET max_score == MaxValue(severity_scores)
             c0 == RMin(RMul(max_score, RInt(2)), RInt(1))
             c1 == IF Len(severity_scores) > 2 THEN RMul(c0, <<4, 5>>) ELSE c0
             c2 == IF Len(analysis_details.positive_indicators) > 0
                      \/ Len(analysis_details.constructive_indicators) > 0
                   THEN RMul(c1, <<11, 10>>) ELSE c1
         IN  RMin(c2, RInt(1))

_determine_tone(analysis_details) ==
    LET positive_count == Len(analysis_details.positive_indicators)
        constructive_count == Len(analysis_details.constructive_indicators)
        scores == analysis_details.severity_scores
    IN  IF positive_count > 0 /\ constructive_count > 0 THEN "constructive"
        ELSE IF positive_count > 0 THEN "positive"
        ELSE IF constructive_count > 0 THEN "neutral-constructive"
        ELSE IF \E i \in 1..Len(scores) : RLt(<<7, 10>>, scores[i].score)
             THEN "harsh"
        ELSE "neutral"

Raised(exc) == [status |-> "raised", error |-> exc]
NotCalled == [status |-> "none"]

analyze_sentiment(c) ==
    IF c.none THEN Raised("AttributeError")
    ELSE
    LET comment_lower == Lower(c.s)
        details0 == [severity_scores |-> << >>,
                     positive_indicators |-> << >>,
                     constructive_indicators |-> << >>,
                     intensity_modifiers |-> << >>,
                     overall_tone |-> "neutral"]
        severity_scores == _calculate_severity_scores(comment_lower)
        applied == _apply_modifiers(comment_lower, severity_scores, details0)
        modified_scores == applied.modified_scores
        details1 == applied.analysis_details
    IN  IF Len(modified_scores) = 0
        THEN [status |-> "returned", severity |-> "low",
              confidence |-> <<3, 10>>, details |-> details1]
        ELSE LET primary_severity == MaxKey(modified_scores)
                 confidence == SentimentAnalyzer_calculate_confidence(modified_scores, details1)
                 \* the tone is derived while details still hold the empty
                 \* severity_scores; the modified scores are stored afterwards
                 tone == _determine_tone(details1)
             IN  [status |-> "returned", severity |-> primary_severity,
                  confidence |-> confidence,
                  details |-> [details1 EXCEPT !.overall_tone = tone,
                                               !.severity_scores = modified_scores]]

-----------------------------------------------------------------------------
(* CategoryClassifier *)

CategoryCap == 2

code_hints ==
  << [ label |-> "performance", hints |->
          << "for ", "while ", "loop", "iteration", "list comprehension" >> ],
     [ label |-> "readability", hints |->
          << "variable", "function", "method", "class" >> ],
     [ label |-> "convention", hints |->
          << "import", "def ", "class ", "function" >> ],
     [ label |-> "logic", hints |->
          << "if ", "else", "elif", "try:", "except:", "return" >> ],
     [ label |-> "security", hints |->
          << "input", "request", "user", "data", "password" >> ],
     [ label |-> "maintainability", hints |->
          << "class", "function", "method", "module" >> ] >>

RECURSIVE CategoryRawScore(_, _, _, _)
CategoryRawScore(patterns, weight, comment_lower, i) ==
    IF i > Len(patterns) THEN RInt(0)
    ELSE LET rest == CategoryRawScore(patterns, weight, comment_lower, i + 1)
         IN  IF Contains(patterns[i], comment_lower)
             THEN LET occurrences ==
                          IntMin(Count(patterns[i], comment_lower), CategoryCap)
                  IN  RAdd(RMul(weight, RInt(occurrences)), rest)
             ELSE rest

\* the context phrases of a category; the empty list when it has none
ContextOf(category) ==
    IF \E i \in 1..Len(context_patterns) : context_patterns[i].label = category
    THEN LET i == CHOOSE k \in 1..Len(context_patterns) :
                      context_patterns[k].label = category
         IN  context_patterns[i].patterns
    ELSE << >>

RECURSIVE ContextBoost(_, _, _, _)
ContextBoost(score, context, comment_lower, i) ==
    IF i > Len(context) THEN score
    ELSE IF Contains(context[i], comment_lower)
         THEN ContextBoost(RMul(score, <<6, 5>>), context, comment_lower, i + 1)
         ELSE ContextBoost(score, context, comment_lower, i + 1)

\* _calculate_category_scores without the `score > 0` test: every category
\* of the table gets an entry
CalculateCategoryScoresKeepingZero(comment_lower) ==
    LET raw == [i \in 1..Len(category_patterns) |->
                   [label |-> category_patterns[i].label,
                    score |-> ContextBoost(
                                  CategoryRawScore(category_patterns[i].patterns,
                                                   category_patterns[i].weight,
                                                   comment_lower, 1),
                                  ContextOf(category_patterns[i].label),
                                  comment_lower, 1),
                    config |-> category_patterns[i]]]
    IN  [i \in 1..Len(raw) |->
            [label |-> raw[i].label,
             score |-> RDiv(raw[i].score,
                            RMul(RInt(Len(raw[i].config.patterns)),
                                 raw[i].config.weight))]]

_calculate_category_scores(comment_lower) ==
    LET raw == [i \in 1..Len(category_patterns) |->
                   [label |-> category_patterns[i].label,
                    score |-> ContextBoost(
                                  CategoryRawScore(category_patterns[i].patterns,
                                                   category_patterns[i].weight,
                                                   comment_lower, 1),
                                  ContextOf(category_patterns[i].label),
                                  comment_lower, 1),
                    config |-> category_patterns[i]]]
        scored == SelectSeq(raw, LAMBDA e : RLt(RInt(0), e.score))
    IN  [i \in 1..Len(scored) |->
            [label |-> scored[i].label,
             score |-> RDiv(scored[i].score,
                            RMul(RInt(Len(scored[i].config.patterns)),
                                 scored[i].config.weight))]]

HintMatches(hints, code_snippet_lower) ==
    Len(SelectSeq(hints, LAMBDA hint : Contains(hint, code_snippet_lower)))

BoostFactor(hint_matches) == RAdd(RInt(1), RMul(RInt(hint_matches), <<1, 10>>))

\* _apply_code_context without the `category in category_scores` test: a
\* category whose hints occur in the code gets an entry of its own
ApplyCodeContextAddingCategories(category_scores, code_snippet_lower) ==
    LET HintsOf(category) ==
            code_hints[CHOOSE k \in 1..Len(code_hints) :
                           code_hints[k].label = category].hints
        boosted ==
            [i \in 1..Len(category_scores) |->
                [category_scores[i] EXCEPT
                    !.score = RMul(@, BoostFactor(
                                  HintMatches(HintsOf(category_scores[i].label),
                                              code_snippet_lower)))]]
        hinted == SelectSeq(code_hints,
                            LAMBDA e : /\ ~HasKey(category_scores, e.label)
                                       /\ HintMatches(e.hints, code_snippet_lower) > 0)
    IN  boosted \o [i \in 1..Len(hinted) |->
                       [label |-> hinted[i].label,
                        score |-> BoostFactor(HintMatches(hinted[i].hints,
                                                          code_snippet_lower))]]

_apply_code_context(category_scores, code_snippet_lower) ==
    [i \in 1..Len(category_scores) |->
        LET category == category_scores[i].label
        IN  IF \E h \in 1..Len(code_hints) : code_hints[h].label = category
            THEN LET h == CHOOSE k \in 1..Len(code_hints) :
                              code_hints[k].label = category
                     hint_matches == HintMatches(code_hints[h].hints, code_snippet_lower)
                 IN  IF hint_matches > 0
                     THEN [category_scores[i] EXCEPT
                              !.score = RMul(@, BoostFactor(hint_matches))]
                     ELSE category_scores[i]
            ELSE category_scores[i]]

ClearIndicators(comment_lower) ==
    Len(SelectSeq(context_patterns,
                  LAMBDA cp : \E k \in 1..Len(cp.patterns) :
                                  Contains(cp.patterns[k], comment_lower)))

\* _calculate_confidence without the final min(confidence, 1.0)
CalculateConfidenceUncapped(category_scores, comment_lower) ==
    IF Len(category_scores) = 0 THEN <<3, 10>>
    ELSE LET max_score == MaxValue(category_scores)
             c0 == RMin(RMul(max_score, <<3, 2>>), RInt(1))
             c1 == IF Len(category_scores) > 2 THEN RMul(c0, <<9, 10>>) ELSE c0
             clear_indicators == ClearIndicators(comment_lower)
         IN  IF clear_indicators = 1 THEN RMul(c1, <<11, 10>>)
             ELSE IF clear_indicators > 1 THEN RMul(c1, <<4, 5>>)
             ELSE c1

CategoryClassifier_calculate_confidence(category_scores, comment_lower) ==
    IF Len(category_scores) = 0 THEN <<3, 10>>
    ELSE LET max_score == MaxValue(category_scores)
             c0 == RMin(RMul(max_score, <<3, 2>>), RInt(1))
             c1 == IF Len(category_scores) > 2 THEN RMul(c0, <<9, 10>>) ELSE c0
             clear_indicators == ClearIndicators(comment_lower)
             c2 == IF clear_indicators = 1 THEN RMul(c1, <<11, 10>>)
                   ELSE IF clear_indicators > 1 THEN RMul(c1, <<4, 5>>)
                   ELSE c1
         IN  RMin(c2, RInt(1))

EscalationWords == << "critical", "major", "serious" >>

TypicalImpact(category) ==
    IF \E i \in 1..Len(category_patterns) : category_patterns[i].label = category
    THEN LET i == CHOOSE k \in 1..Len(category_patterns) :
                      category_patterns[k].label = category
         IN  category_patterns[i].typical_impact
    ELSE "medium"

AnyIn(words, text) == \E k \in 1..Len(words) : Contains(words[k], text)

RECURSIVE ExplicitImpact(_, _)
\* the first impact level, in table order, one of whose indicators occurs;
\* "" when none does
ExplicitImpact(comment_lower, i) ==
    IF i > Len(impact_indicators) THEN ""
    ELSE IF AnyIn(impact_indicators[i].indicators, comment_lower)
         THEN impact_indicators[i].label
         ELSE ExplicitImpact(comment_lower, i + 1)

\* the category rules consulted before the explicit impact keywords
AssessImpactCategoryFirst(category, comment_lower) ==
    LET explicit == ExplicitImpact(comment_lower, 1)
    IN  IF category = "security" THEN "high"
        ELSE IF category \in {"logic", "performance"}
             THEN IF AnyIn(EscalationWords, comment_lower) THEN "high" ELSE "medium"
        ELSE IF category = "convention" THEN "low"
        ELSE IF explicit # "" THEN explicit
        ELSE TypicalImpact(category)

\* logic and performance escalated whatever the comment says
AssessImpactAlwaysEscalated(category, comment_lower) ==
    LET explicit == ExplicitImpact(comment_lower, 1)
    IN  IF explicit # "" THEN explicit
        ELSE IF category \in {"security", "logic", "performance"} THEN "high"
        ELSE IF category = "convention" THEN "low"
        ELSE TypicalImpact(category)

\* without the category rules: the typical impact whenever no keyword occurs
AssessImpactTypicalByDefault(category, comment_lower) ==
    LET explicit == ExplicitImpact(comment_lower, 1)
    IN  IF explicit # "" THEN explicit
        ELSE TypicalImpact(category)

_assess_impact_level(category, comment_lower) ==
    LET explicit == ExplicitImpact(comment_lower, 1)
    IN  IF explicit # "" THEN explicit
        ELSE IF category = "security" THEN "high"
        ELSE IF category \in {"logic", "performance"}
             THEN IF AnyIn(EscalationWords, comment_lower) THEN "high" ELSE "medium"
        ELSE IF category = "convention" THEN "low"
        ELSE TypicalImpact(category)

classify_comment(c, code) ==
    IF c.none THEN Raised("AttributeError")
    ELSE
    LET comment_lower == Lower(c.s)
        base_scores == _calculate_category_scores(comment_lower)
        category_scores == IF Truthy(code)
                           THEN _apply_code_context(base_scores, Lower(code.s))
                           ELSE base_scores
    IN  IF Len(category_scores) = 0
        THEN [status |-> "returned", category |-> "general",
              confidence |-> <<3, 10>>, impact_level |-> "low"]
        ELSE LET primary_category == MaxKey(category_scores)
             IN  [status |-> "returned", category |-> primary_category,
                  confidence |->
                      CategoryClassifier_calculate_confidence(category_scores,
                                                              comment_lower),
                  impact_level |-> _assess_impact_level(primary_category,
                                                        comment_lower)]

-----------------------------------------------------------------------------
(* LanguageDetector *)

LanguageCap == 3

\* `pattern in strong_indicators`: list membership, case-sensitive
InList(x, list) == \E k \in 1..Len(list) : list[k] = x

RECURSIVE LanguageRawScore(_, _, _, _)
LanguageRawScore(patterns, strong_indicators, code_lower, i) ==
    IF i > Len(patterns) THEN 0
    ELSE LET rest == LanguageRawScore(patterns, strong_indicators, code_lower, i + 1)
             pattern_lower == Lower(patterns[i])
         IN  IF Contains(pattern_lower, code_lower)
             THEN LET weight == IF InList(patterns[i], strong_indicators) THEN 2 ELSE 1
                      occurrences == Count(pattern_lower, code_lower)
                  IN  weight * IntMin(occurrences, LanguageCap) + rest
             ELSE rest

_analyze_patterns(code) ==
    LET code_lower == Lower(code)
        all == [i \in 1..Len(language_patterns) |->
                   [label |-> language_patterns[i].label,
                    score |-> Rat(LanguageRawScore(language_patterns[i].patterns,
                                                   language_patterns[i].strong_indicators,
                                                   code_lower, 1),
                                  Len(language_patterns[i].patterns) * 2),
                    config |-> language_patterns[i]]]
        kept == SelectSeq(all, LAMBDA e : Len(e.config.patterns) > 0)
    IN  [i \in 1..Len(kept) |-> [label |-> kept[i].label, score |-> kept[i].score]]

RECURSIVE FilenameLanguage(_, _)
\* the first language, in table order, one of whose extensions ends the
\* lower-cased filename; None when there is none
FilenameLanguage(filename_lower, i) ==
    IF i > Len(language_patterns) THEN None
    ELSE IF \E k \in 1..Len(language_patterns[i].file_extensions) :
                EndsWith(filename_lower, language_patterns[i].file_extensions[k])
         THEN Str(language_patterns[i].label)
         ELSE FilenameLanguage(filename_lower, i + 1)

_detect_from_filename(fname) == FilenameLanguage(Lower(fname), 1)

FilenameBoost == <<3, 2>>

\* detect_language without the all-zero test before the maximum is taken
DetectLanguageNoZeroTest(code, fname) ==
    IF ~Truthy(code) \/ Strip(code.s) = ""
    THEN [status |-> "returned", language |-> "unknown", confidence |-> RInt(0)]
    ELSE
    LET lang_from_file == IF Truthy(fname) THEN _detect_from_filename(fname.s)
                          ELSE None
        pattern_scores == _analyze_patterns(code.s)
        language_scores ==
            IF Truthy(fname) /\ Truthy(lang_from_file)
               /\ HasKey(pattern_scores, lang_from_file.s)
            THEN [i \in 1..Len(pattern_scores) |->
                     IF pattern_scores[i].label = lang_from_file.s
                     THEN [pattern_scores[i] EXCEPT !.score = RMul(@, FilenameBoost)]
                     ELSE pattern_scores[i]]
            ELSE pattern_scores
    IN  IF Len(language_scores) = 0
        THEN [status |-> "returned", language |-> "unknown", confidence |-> <<1, 10>>]
        ELSE LET best_language == MaxKey(language_scores)
             IN  [status |-> "returned", language |-> best_language,
                  confidence |-> RMin(Get(language_scores, best_language), RInt(1))]

\* detect_language testing the code for None and "" only, not for whitespace
DetectLanguageNoStrip(code, fname) ==
    IF ~Truthy(code)
    THEN [status |-> "returned", language |-> "unknown", confidence |-> RInt(0)]
    ELSE
    LET lang_from_file == IF Truthy(fname) THEN _detect_from_filename(fname.s)
                          ELSE None
        pattern_scores == _analyze_patterns(code.s)
        language_scores ==
            IF Truthy(fname) /\ Truthy(lang_from_file)
               /\ HasKey(pattern_scores, lang_from_file.s)
            THEN [i \in 1..Len(pattern_scores) |->
                     IF pattern_scores[i].label = lang_from_file.s
                     THEN [pattern_scores[i] EXCEPT !.score = RMul(@, FilenameBoost)]
                     ELSE pattern_scores[i]]
            ELSE pattern_scores
    IN  IF Len(language_scores) = 0 \/ MaxValue(language_scores) = RInt(0)
        THEN [status |-> "returned", language |-> "unknown", confidence |-> <<1, 10>>]
        ELSE LET best_language == MaxKey(language_scores)
             IN  [status |-> "returned", language |-> best_language,
                  confidence |-> RMin(Get(language_scores, best_language), RInt(1))]

\* detect_language counting the filename as evidence of its own: half a
\* point is added to the score of the filename's language
DetectLanguageFilenameAdds(code, fname) ==
    IF ~Truthy(code) \/ Strip(code.s) = ""
    THEN [status |-> "returned", language |-> "unknown", confidence |-> RInt(0)]
    ELSE
    LET lang_from_file == IF Truthy(fname) THEN _detect_from_filename(fname.s)
                          ELSE None
        pattern_scores == _analyze_patterns(code.s)
        language_scores ==
            IF Truthy(fname) /\ Truthy(lang_from_file)
               /\ HasKey(pattern_scores, lang_from_file.s)
            THEN [i \in 1..Len(pattern_scores) |->
                     IF pattern_scores[i].label = lang_from_file.s
                     THEN [pattern_scores[i] EXCEPT !.score = RAdd(@, <<1, 2>>)]
                     ELSE pattern_scores[i]]
            ELSE pattern_scores
    IN  IF Len(language_scores) = 0 \/ MaxValue(language_scores) = RInt(0)
        THEN [status |-> "returned", language |-> "unknown", confidence |-> <<1, 10>>]
        ELSE LET best_language == MaxKey(language_scores)
             IN  [status |-> "returned", language |-> best_language,
                  confidence |-> RMin(Get(language_scores, best_language), RInt(1))]

detect_language(code, fname) ==
    IF ~Truthy(code) \/ Strip(code.s) = ""
    THEN [status |-> "returned", language |-> "unknown", confidence |-> RInt(0)]
    ELSE
    LET lang_from_file == IF Truthy(fname) THEN _detect_from_filename(fname.s)
                          ELSE None
        pattern_scores == _analyze_patterns(code.s)
        language_scores ==
            IF Truthy(fname) /\ Truthy(lang_from_file)
               /\ HasKey(pattern_scores, lang_from_file.s)
            THEN [i \in 1..Len(pattern_scores) |->
                     IF pattern_scores[i].label = lang_from_file.s
                     THEN [pattern_scores[i] EXCEPT !.score = RMul(@, FilenameBoost)]
                     ELSE pattern_scores[i]]
            ELSE pattern_scores
    IN  IF Len(language_scores) = 0 \/ MaxValue(language_scores) = RInt(0)
        THEN [status |-> "returned", language |-> "unknown", confidence |-> <<1, 10>>]
        ELSE LET best_language == MaxKey(language_scores)
             IN  [status |-> "returned", language |-> best_language,
                  confidence |-> RMin(Get(language_scores, best_language), RInt(1))]

-----------------------------------------------------------------------------
(* core/models.py, core/config.py *)

max_comments == 10

resource_mappings ==
  << [ label |-> "python", categories |-> <<
        [ label |-> "performance", links |-> <<
            "https://docs.python.org/3/tutorial/datastructures.html#list-comprehensions",
            "https://wiki.python.org/moin/PythonSpeed/PerformanceTips",
            "https://docs.python.org/3/library/profile.html" >> ],
        [ label |-> "readability", links |-> <<
            "https://pep8.org/",
            "https://google.github.io/styleguide/pyguide.html",
            "https://realpython.com/python-code-quality/" >> ],
        [ label |-> "convention", links |-> <<
            "https://peps.python.org/pep-0008/",
            "https://peps.python.org/pep-0257/",
            "https://docs.python-guide.org/writing/style/" >> ],
        [ label |-> "logic", links |-> <<
            "https://docs.python.org/3/tutorial/controlflow.html",
            "https://realpython.com/python-conditional-statements/" >> ],
        [ label |-> "security", links |-> <<
            "https://owasp.org/www-project-top-ten/",
            "https://bandit.readthedocs.io/en/latest/" >> ],
        [ label |-> "maintainability", links |-> <<
            "https://refactoring.guru/refactoring",
            "https://martinfowler.com/books/refactoring.html" >> ] >> ],
     [ label |-> "javascript", categories |-> <<
        [ label |-> "performance", links |-> <<
            "https://developer.mozilla.org/en-US/docs/Web/JavaScript/Guide/Loops_and_iteration",
            "https://web.dev/fast/",
            "https://developers.google.com/web/fundamentals/performance" >> ],
        [ label |-> "readability", links |-> <<
            "https://google.github.io/styleguide/jsguide.html",
            "https://github.com/airbnb/javascript",
            "https://standardjs.com/" >> ],
        [ label |-> "convention", links |-> <<
            "https://eslint.org/docs/rules/",
            "https://prettier.io/docs/en/rationale.html" >> ],
        [ label |-> "logic", links |-> <<
            "https://developer.mozilla.org/en-US/docs/Web/JavaScript/Guide/Control_flow_and_error_handling",
            "https://javascript.info/logical-operators" >> ],
        [ label |-> "security", links |-> <<
            "https://owasp.org/www-project-top-ten/",
            "https://snyk.io/learn/javascript-security/" >> ],
        [ label |-> "maintainability", links |-> <<
            "https://refactoring.guru/refactoring",
            "https://github.com/ryanmcdermott/clean-code-javascript" >> ] >> ],
     [ label |-> "java", categories |-> <<
        [ label |-> "performance", links |-> <<
            "https://docs.oracle.com/javase/tutorial/collections/algorithms/",
            "https://www.oracle.com/technical-resources/articles/java/performance-tuning.html" >> ],
        [ label |-> "readability", links |-> <<
            "https://google.github.io/styleguide/javaguide.html",
            "https://www.oracle.com/java/technologies/javase/codeconventions-contents.html" >> ],
        [ label |-> "convention", links |-> <<
            "https://checkstyle.sourceforge.io/",
            "https://pmd.github.io/" >> ],
        [ label |-> "maintainability", links |-> <<
            "https://refactoring.guru/refactoring",
            "https://martinfowler.com/books/refactoring.html" >> ] >> ],
     [ label |-> "typescript", categories |-> <<
        [ label |-> "performance", links |-> <<
            "https://www.typescriptlang.org/docs/handbook/performance.html",
            "https://github.com/Microsoft/TypeScript/wiki/Performance" >> ],
        [ label |-> "readability", links |-> <<
            "https://google.github.io/styleguide/tsguide.html",
            "https://typescript-eslint.io/rules/" >> ],
        [ label |-> "convention", links |-> <<
            "https://www.typescriptlang.org/docs/handbook/declaration-files/do-s-and-don-ts.html",
            "https://typescript-eslint.io/rules/" >> ] >> ] >>

\* ReviewComment(original, severity, category, impact_level, confidence);
\* enum members are represented by their values
ReviewComment(original, severity, category, impact_level, confidence) ==
    IF severity \notin SeverityLevel \/ category \notin CategoryType
       \/ impact_level \notin ImpactLevel
    THEN Raised("ValueError")
    ELSE [status |-> "constructed",
          original |-> original,
          severity |-> severity,
          category |-> category,
          impact_level |-> impact_level,
          confidence |-> confidence,
          positive_rephrase |-> "",
          explanation |-> "",
          code_suggestion |-> "",
          learning_objective |-> "",
          resources |-> << >>]

-----------------------------------------------------------------------------
(* ResourceManager *)

HasLabel(table, label) == \E i \in 1..Len(table) : table[i].label = label
Entry(table, label) == table[CHOOSE i \in 1..Len(table) : table[i].label = label]

\* list[:n]
Prefix(list, n) == SubSeq(list, 1, IntMin(n, Len(list)))

get_resources(lang, category) ==
    LET own == IF HasLabel(resource_mappings, lang)
                  /\ HasLabel(Entry(resource_mappings, lang).categories, category)
               THEN Prefix(Entry(Entry(resource_mappings, lang).categories,
                                 category).links, 3)
               ELSE << >>
    IN  IF Len(own) = 0 /\ HasLabel(resource_mappings, "python")
           /\ HasLabel(Entry(resource_mappings, "python").categories, category)
        THEN own \o Prefix(Entry(Entry(resource_mappings, "python").categories,
                                 category).links, 2)
        ELSE own

-----------------------------------------------------------------------------
(* FeedbackGenerator *)

SectionHeaders ==
    << [header |-> "POSITIVE_REPHRASE:", section |-> "rephrase"],
       [header |-> "EXPLANATION:", section |-> "explanation"],
       [header |-> "CODE_IMPROVEMENT:", section |-> "code"],
       [header |-> "LEARNING_OBJECTIVE:", section |-> "learning"] >>

NoSections == [rephrase |-> None, explanation |-> None, code |-> None, learning |-> None]

\* sections[current_section] = '\n'.join(current_content).strip()
Flush(st) ==
    IF st.current_section = "" THEN st.sections
    ELSE [st.sections EXCEPT
             ![st.current_section] = Str(Strip(Join("\n", st.current_content)))]

ParseLine(st, raw_line) ==
    LET line == Strip(raw_line)
    IN  IF \E h \in 1..Len(SectionHeaders) : StartsWith(line, SectionHeaders[h].header)
        THEN LET h == CHOOSE k \in 1..Len(SectionHeaders) :
                          /\ StartsWith(line, SectionHeaders[k].header)
                          /\ \A j \in 1..(k - 1) :
                                 ~StartsWith(line, SectionHeaders[j].header)
             IN  [sections |-> Flush(st),
                  current_section |-> SectionHeaders[h].section,
                  current_content |->
                      << Strip(Remove(line, SectionHeaders[h].header)) >>]
        ELSE IF st.current_section # "" /\ line # ""
             THEN [st EXCEPT !.current_content = Append(@, line)]
             ELSE st

RECURSIVE ParseLines(_, _, _)
ParseLines(st, lines, i) ==
    IF i > Len(lines) THEN st
    ELSE ParseLines(ParseLine(st, lines[i]), lines, i + 1)

_parse_response(content) ==
    Flush(ParseLines([sections |-> NoSections, current_section |-> "",
                      current_content |-> << >>],
                     Split(content, "\n"), 1))

\* sections.get(key, default)
SectionGet(sections, key, default) ==
    IF sections[key].none THEN default ELSE sections[key].s

Quote == "\""
\* a TLA+ string cannot hold the backquote character: "~" stands for it,
\* here and in the modelled responses
Fence == "~~~"

Unquote(text) ==
    IF StartsWith(text, Quote) /\ EndsWith(text, Quote) THEN Slice(text, 1, 1)
    ELSE text

CleanRephrase(text) ==
    IF StartsWith(text, Quote \o Quote) /\ EndsWith(text, Quote \o Quote)
    THEN Slice(text, 2, 2)
    ELSE Unquote(text)

CleanCode(text) ==
    LET unfenced ==
            IF Contains(Fence, text)
            THEN Strip(Join("\n",
                     SelectSeq(Split(text, "\n"),
                               LAMBDA line : ~StartsWith(Strip(line), Fence)
                                             /\ Strip(line) # "")))
            ELSE text
    IN  Unquote(unfenced)

\* the fallback forgetting to reset the confidence
FallbackKeepingConfidence(rc) ==
    [rc EXCEPT
        !.positive_rephrase = "Great work! Here's an opportunity to enhance this further.",
        !.explanation = "This improvement will enhance code quality and maintainability.",
        !.code_suggestion = "// Enhanced code would go here",
        !.learning_objective = "Focus on continuous improvement and best practices."]

\* the fallback setting the confidence to certainty
FallbackFullConfidence(rc) ==
    [rc EXCEPT
        !.positive_rephrase = "Great work! Here's an opportunity to enhance this further.",
        !.explanation = "This improvement will enhance code quality and maintainability.",
        !.code_suggestion = "// Enhanced code would go here",
        !.learning_objective = "Focus on continuous improvement and best practices.",
        !.confidence = <<1, 1>>]

_fallback_response(rc) ==
    [rc EXCEPT
        !.positive_rephrase = "Great work! Here's an opportunity to enhance this further.",
        !.explanation = "This improvement will enhance code quality and maintainability.",
        !.code_suggestion = "// Enhanced code would go here",
        !.learning_objective = "Focus on continuous improvement and best practices.",
        !.confidence = <<3, 10>>]

\* a success path that also lowers the confidence
GenerateResponseLoweringConfidence(rc, outcome) ==
    IF outcome.status = "raised" \/ outcome.content.none
    THEN _fallback_response(rc)
    ELSE LET sections == _parse_response(Strip(outcome.content.s))
         IN  [rc EXCEPT
                 !.positive_rephrase =
                     CleanRephrase(SectionGet(sections, "rephrase",
                                              "Great work! Here's a suggestion.")),
                 !.explanation =
                     Unquote(SectionGet(sections, "explanation",
                                        "This will enhance code quality.")),
                 !.code_suggestion =
                     CleanCode(SectionGet(sections, "code", "// Improved code here")),
                 !.learning_objective =
                     SectionGet(sections, "learning", "Focus on best practices."),
                 !.confidence = <<3, 10>>]

\* outcome: what openai.ChatCompletion.create did, an exception or a response
\* whose message content is a str or None
generate_empathetic_response(rc, outcome) ==
    IF outcome.status = "raised" \/ outcome.content.none
    THEN _fallback_response(rc)
    ELSE LET sections == _parse_response(Strip(outcome.content.s))
         IN  [rc EXCEPT
                 !.positive_rephrase =
                     CleanRephrase(SectionGet(sections, "rephrase",
                                              "Great work! Here's a suggestion.")),
                 !.explanation =
                     Unquote(SectionGet(sections, "explanation",
                                        "This will enhance code quality.")),
                 !.code_suggestion =
                     CleanCode(SectionGet(sections, "code", "// Improved code here")),
                 !.learning_objective =
                     SectionGet(sections, "learning", "Focus on best practices.")]

-----------------------------------------------------------------------------
(* bounded inputs *)

MaxWords == 2

CommentVocab ==
    { "bad", "terrible", "broken", "consider", "good", "very", "slightly",
      "logic", "important", "minor", "security", "style", "quality", "readable" }

ExampleComments ==
    { "This is terrible, completely wrong logic",
      "Consider using a list comprehension here for better performance",
      "good nice great excellent solid clean bad",
      "good nice great excellent solid bad",
      "nice to have good great excellent solid clean",
      "extremely very terrible terrible terrible",
      "broken bad wrong poor",
      "This is a critical bug in the loop",
      "vulnerability", "pep", "slow", "refactor",
      "serious logic", "serious slow", "serious pep", "serious vulnerability",
      "serious refactor", "serious readable",
      "good nice great excellent solid clean broken broken should",
      "good nice great excellent solid clean broken should could",
      "   " }

CodeVocab ==
    { "def ", "self.", "function", "let ", "True", "zzz", ":", "interface",
      "for ", "return" }

ExampleCodes ==
    { "   ", "x = 1", "for item in items:\n    if item: return item" }

Filenames ==
    { None, Str(""), Str("app.py"), Str("APP.PY"), Str("main.js"),
      Str("notes.txt"), Str("view.tsx") }

RECURSIVE Texts(_, _)
\* the texts made of at most n words of vocab, joined by single spaces
Texts(vocab, n) ==
    IF n = 0 THEN {""}
    ELSE LET shorter == Texts(vocab, n - 1)
         IN  shorter \cup { IF t = "" THEN w ELSE t \o " " \o w :
                                t \in shorter, w \in vocab }

CommentInputs ==
    {None} \cup { Str(t) : t \in Texts(CommentVocab, MaxWords) \cup ExampleComments }

CodeInputs ==
    {None} \cup { Str(t) : t \in Texts(CodeVocab, MaxWords) \cup ExampleCodes }

ClassifyCodes == { None, Str(""), Str("for item in items:\n    if item: return item"),
                   Str("class User: password = input()") }

-----------------------------------------------------------------------------
(* the analyzers called on their own *)

ReviewIdle ==
    /\ _initialize_components
    /\ calls = << >>
    /\ input_data = None /\ pc = "idle" /\ language = None /\ index = 0
    /\ review_comment = None /\ generation = NotCalled
    /\ processed_comments = << >> /\ report = None /\ error = None

InitSentiment ==
    /\ ReviewIdle
    /\ comment \in CommentInputs
    /\ code_snippet = None /\ filename = None
    /\ sentiment = NotCalled /\ classification = NotCalled /\ detection = NotCalled

AnalyzeSentiment ==
    /\ sentiment.status = "none"
    /\ sentiment' = analyze_sentiment(comment)
    /\ UNCHANGED << instanceVars, calls, comment, code_snippet, filename,
                    classification, detection, reviewVars >>

SpecSentiment == InitSentiment /\ [][AnalyzeSentiment]_vars

InitCategory ==
    /\ ReviewIdle
    /\ comment \in CommentInputs
    /\ code_snippet \in ClassifyCodes
    /\ filename = None
    /\ sentiment = NotCalled /\ classification = NotCalled /\ detection = NotCalled

ClassifyComment ==
    /\ classification.status = "none"
    /\ classification' = classify_comment(comment, code_snippet)
    /\ UNCHANGED << instanceVars, calls, comment, code_snippet, filename,
                    sentiment, detection, reviewVars >>

SpecCategory == InitCategory /\ [][ClassifyComment]_vars

InitLanguage ==
    /\ ReviewIdle
    /\ comment = None
    /\ code_snippet \in CodeInputs
    /\ filename \in Filenames
    /\ sentiment = NotCalled /\ classification = NotCalled /\ detection = NotCalled

DetectLanguage ==
    /\ detection.status = "none"
    /\ detection' = detect_language(code_snippet, filename)
    /\ UNCHANGED << instanceVars, calls, comment, code_snippet, filename,
                    sentiment, classification, reviewVars >>

SpecLanguage == InitLanguage /\ [][DetectLanguage]_vars

-----------------------------------------------------------------------------
(* EmpathethicCodeReviewer.process_review *)

MaxComments == 2

ReviewCodes ==
    { None, Str("   "), Str("x = 1"),
      Str("def total(self):\n    for item in self.items: return item") }

ReviewTexts ==
    { None, Str(" "), Str("bad"),
      Str("This is terrible, completely wrong logic"),
      Str("good nice great excellent solid clean bad"),
      Str("terrible terrible security security vulnerability vulnerability") }

RECURSIVE Lists(_, _)
\* the lists of at most n elements of a set
Lists(S, n) ==
    IF n = 0 THEN { << >> }
    ELSE LET shorter == Lists(S, n - 1)
         IN  shorter \cup { Append(l, x) : l \in shorter, x \in S }

AllKeys == {"code_snippet", "review_comments"}

TooManyComments == [i \in 1..(max_comments + 1) |-> Str("bad")]

ReviewInputs ==
    { [keys |-> AllKeys, code_snippet |-> c, review_comments |-> l] :
          c \in ReviewCodes, l \in Lists(ReviewTexts, MaxComments) }
    \cup { [keys |-> k, code_snippet |-> Str("x = 1"),
            review_comments |-> << Str("bad") >>] :
               k \in {{"code_snippet"}, {"review_comments"}} }
    \cup { [keys |-> AllKeys, code_snippet |-> Str("x = 1"),
            review_comments |-> TooManyComments] }

\* what the generation service may do: raise, answer without content, or
\* answer with a text
GenerationOutcomes ==
    { Raised("APIError"),
      [status |-> "returned", content |-> None],
      [status |-> "returned", content |-> Str("Looks fine to me.")],
      [status |-> "returned", content |->
          Str("POSITIVE_REPHRASE: \"Nice start!\"\nEXPLANATION: \"Loops cost time.\"\n"
              \o "CODE_IMPROVEMENT: ~~~python\nreturn sum(items)\n~~~\n"
              \o "LEARNING_OBJECTIVE: Built-ins")] }

\* a validation that looks at the first comment only
ValidateInputFirstCommentOnly(data) ==
    IF "code_snippet" \notin data.keys THEN "Input must contain 'code_snippet' key"
    ELSE IF "review_comments" \notin data.keys
         THEN "Input must contain 'review_comments' key"
    ELSE IF data.code_snippet.none \/ Strip(data.code_snippet.s) = ""
         THEN "'code_snippet' must be a non-empty string"
    ELSE IF Len(data.review_comments) = 0
         THEN "'review_comments' must be a non-empty list"
    ELSE IF Len(data.review_comments) > max_comments
         THEN "Maximum comments allowed"
    ELSE IF data.review_comments[1].none \/ Strip(data.review_comments[1].s) = ""
         THEN "Comment must be a non-empty string"
    ELSE ""

\* "" when the input is valid, else the ValueError message
_validate_input(data) ==
    IF "code_snippet" \notin data.keys THEN "Input must contain 'code_snippet' key"
    ELSE IF "review_comments" \notin data.keys
         THEN "Input must contain 'review_comments' key"
    ELSE IF data.code_snippet.none \/ Strip(data.code_snippet.s) = ""
         THEN "'code_snippet' must be a non-empty string"
    ELSE IF Len(data.review_comments) = 0
         THEN "'review_comments' must be a non-empty list"
    ELSE IF Len(data.review_comments) > max_comments
         THEN "Maximum comments allowed"
    ELSE IF \E i \in 1..Len(data.review_comments) :
                data.review_comments[i].none \/ Strip(data.review_comments[i].s) = ""
         THEN "Comment must be a non-empty string"
    ELSE ""

generate_hackathon_report(code, comments, lang) ==
    [language |-> lang,
     total |-> Len(comments),
     entries |-> [i \in 1..Len(comments) |->
                     [original |-> comments[i].original,
                      positive_rephrase |-> comments[i].positive_rephrase,
                      explanation |-> comments[i].explanation,
                      code_suggestion |-> comments[i].code_suggestion]]]

Init ==
    /\ _initialize_components
    /\ calls = << >>
    /\ input_data \in ReviewInputs
    /\ pc = "validate"
    /\ language = None /\ index = 0
    /\ review_comment = None /\ generation = NotCalled
    /\ processed_comments = << >> /\ report = None /\ error = None
    /\ comment = None /\ code_snippet = None /\ filename = None
    /\ sentiment = NotCalled /\ classification = NotCalled /\ detection = NotCalled

ValidateInput ==
    /\ pc = "validate"
    /\ LET message == _validate_input(input_data)
       IN  IF message # ""
           THEN /\ pc' = "raised"
                /\ error' = Str("ValueError")
                /\ UNCHANGED code_snippet
           ELSE /\ pc' = "detect"
                /\ code_snippet' = input_data.code_snippet
                /\ UNCHANGED error
    /\ UNCHANGED << instanceVars, calls, comment, filename, sentiment,
                    classification, detection,
                    input_data, language, index, review_comment, generation,
                    processed_comments, report >>

DetectLanguageStep ==
    /\ pc = "detect"
    /\ detection' = detect_language(code_snippet, None)
    /\ language' = Str(detection'.language)
    /\ index' = 1
    /\ pc' = "analyze"
    /\ UNCHANGED << instanceVars, calls, comment, code_snippet, filename,
                    sentiment, classification,
                    input_data, review_comment, generation, processed_comments,
                    report, error >>

\* an _analyze_comment that takes the sentiment confidence for the record
AnalyzeCommentSentimentConfidence ==
    /\ pc = "analyze"
    /\ index <= Len(input_data.review_comments)
    /\ comment' = input_data.review_comments[index]
    /\ sentiment' = analyze_sentiment(comment')
    /\ classification' = classify_comment(comment', code_snippet)
    /\ generation' = NotCalled
    /\ IF sentiment'.status = "raised" \/ classification'.status = "raised"
       THEN /\ pc' = "raised"
            /\ error' = Str("AttributeError")
            /\ UNCHANGED review_comment
       ELSE /\ pc' = "generate"
            /\ review_comment' = ReviewComment(comment'.s, sentiment'.severity,
                                               classification'.category,
                                               classification'.impact_level,
                                               sentiment'.confidence)
            /\ UNCHANGED error
    /\ UNCHANGED << instanceVars, calls, code_snippet, filename, detection,
                    input_data, language, index,
                    processed_comments, report >>

\* _analyze_comment up to the construction of the ReviewComment
AnalyzeComment ==
    /\ pc = "analyze"
    /\ index <= Len(input_data.review_comments)
    /\ comment' = input_data.review_comments[index]
    /\ sentiment' = analyze_sentiment(comment')
    /\ classification' = classify_comment(comment', code_snippet)
    /\ generation' = NotCalled
    /\ IF sentiment'.status = "raised" \/ classification'.status = "raised"
       THEN /\ pc' = "raised"
            /\ error' = Str("AttributeError")
            /\ UNCHANGED review_comment
       ELSE LET rc == ReviewComment(comment'.s, sentiment'.severity,
                                    classification'.category,
                                    classification'.impact_level,
                                    RMin(sentiment'.confidence,
                                         classification'.confidence))
            IN  IF rc.status = "raised"
                THEN /\ pc' = "raised"
                     /\ error' = Str(rc.error)
                     /\ UNCHANGED review_comment
                ELSE /\ pc' = "generate"
                     /\ review_comment' = rc
                     /\ UNCHANGED error
    /\ UNCHANGED << instanceVars, calls, code_snippet, filename, detection,
                    input_data, language, index,
                    processed_comments, report >>

\* a generation step that lets the service's exception out of process_review
GenerateAbortingOnFailure(outcome) ==
    /\ pc = "generate"
    /\ generation' = outcome
    /\ IF outcome.status = "raised"
       THEN /\ pc' = "raised"
            /\ error' = Str(outcome.error)
            /\ UNCHANGED review_comment
       ELSE /\ review_comment' = generate_empathetic_response(review_comment, outcome)
            /\ pc' = "resources"
            /\ UNCHANGED error
    /\ UNCHANGED << instanceVars, calls, analyzerVars, input_data, language,
                    index, processed_comments, report >>

\* generate_empathetic_response, for each thing the service may do
Generate(outcome) ==
    /\ pc = "generate"
    /\ generation' = outcome
    /\ review_comment' = generate_empathetic_response(review_comment, outcome)
    /\ pc' = "resources"
    /\ UNCHANGED << instanceVars, calls, analyzerVars, input_data, language,
                    index, processed_comments,
                    report, error >>

\* the rest of _analyze_comment and the append in process_review
AddResources ==
    /\ pc = "resources"
    /\ LET done == [review_comment EXCEPT
                       !.resources = get_resources(language.s, review_comment.category)]
       IN  /\ review_comment' = done
           /\ processed_comments' = Append(processed_comments, done)
    /\ index' = index + 1
    /\ pc' = IF index' > Len(input_data.review_comments) THEN "report" ELSE "analyze"
    /\ UNCHANGED << instanceVars, calls, analyzerVars, input_data, language,
                    generation, report, error >>

\* the summary statistics are computed and logged only; the report is what
\* process_review returns
Report ==
    /\ pc = "report"
    /\ report' = generate_hackathon_report(code_snippet, processed_comments, language.s)
    /\ pc' = "done"
    /\ UNCHANGED << instanceVars, calls, analyzerVars, input_data, language,
                    index, review_comment,
                    generation, processed_comments, error >>

Next ==
    \/ ValidateInput
    \/ DetectLanguageStep
    \/ AnalyzeComment
    \/ \E outcome \in GenerationOutcomes : Generate(outcome)
    \/ AddResources
    \/ Report

Spec == Init /\ [][Next]_vars

-----------------------------------------------------------------------------
(* properties *)

Zero == RInt(0)
One == RInt(1)

SeverityPatternsOf(label) == Entry(severity_patterns, label).patterns

HasPositive(text) == AnyIn(positive_indicators, Lower(text))
HasConstructive(text) == AnyIn(constructive_indicators, Lower(text))

SentimentReturned == sentiment.status = "returned"
ClassificationReturned == classification.status = "returned"
DetectionReturned == detection.status = "returned"

\* C1: the confidence returned by analyze_sentiment lies in [0, 1] for every
\* comment string, whatever indicators and modifiers it contains.
C1_SentimentConfidenceInUnitInterval ==
    SentimentReturned =>
        RLe(Zero, sentiment.confidence) /\ RLe(sentiment.confidence, One)

\* C2: a non-empty comment holding a critical-severity pattern and neither a
\* positive nor a constructive indicator gets severity critical and a tone
\* that is neither positive nor constructive.
C2_CriticalPatternGivesCritical ==
    ( /\ SentimentReturned
      /\ comment.s # ""
      /\ AnyIn(SeverityPatternsOf("critical"), Lower(comment.s))
      /\ ~HasPositive(comment.s)
      /\ ~HasConstructive(comment.s) )
    => /\ sentiment.severity = "critical"
       /\ sentiment.details.overall_tone \notin {"positive", "constructive"}

\* C3: with neither a positive nor a constructive indicator, a final severity
\* score above 0.7 makes the overall tone 'harsh'.
C3_HighScoreGivesHarsh ==
    ( /\ SentimentReturned
      /\ ~HasPositive(comment.s)
      /\ ~HasConstructive(comment.s)
      /\ \E i \in 1..Len(sentiment.details.severity_scores) :
             RLt(<<7, 10>>, sentiment.details.severity_scores[i].score) )
    => sentiment.details.overall_tone = "harsh"

C4_Comment == Str("This is terrible, completely wrong logic")

C4_Analyzed ==
    comment = C4_Comment /\ SentimentReturned /\ ClassificationReturned

\* C4 as stated: the example comment gets severity critical, category logic
\* and impact high.
C4_ExampleImpactHigh ==
    C4_Analyzed => /\ sentiment.severity = "critical"
                   /\ classification.category = "logic"
                   /\ classification.impact_level = "high"

\* C4 amended: the example comment gets severity critical, category logic and
\* impact medium: it holds no impact keyword and no escalation word.
C4_ExampleImpactMedium ==
    C4_Analyzed => /\ sentiment.severity = "critical"
                   /\ classification.category = "logic"
                   /\ classification.impact_level = "medium"

C4_ExampleReached == C4_Analyzed /\ pc = "generate"

NoLanguagePattern(code) ==
    \A i \in 1..Len(language_patterns) :
        ~AnyIn([k \in 1..Len(language_patterns[i].patterns) |->
                   Lower(language_patterns[i].patterns[k])], Lower(code))

C5_Case ==
    /\ DetectionReturned
    /\ filename = Str("app.py")
    /\ ~code_snippet.none
    /\ Strip(code_snippet.s) # ""
    /\ NoLanguagePattern(code_snippet.s)

\* C5 as stated: filename "app.py" with a non-empty fragment holding no
\* language pattern gives python with a confidence above zero.
C5_FilenameIntroducesPython ==
    C5_Case => detection.language = "python" /\ RLt(Zero, detection.confidence)

\* C5 amended: filename "app.py" with a non-empty fragment holding no language
\* pattern gives (unknown, 0.1): the boost multiplies a zero score.
C5_FilenameAloneGivesUnknown ==
    C5_Case => detection.language = "unknown" /\ detection.confidence = <<1, 10>>

C5_FilenameAloneReached == C5_Case /\ code_snippet = Str("zzz")

\* C6: when no severity has a nonzero score after the modifier pass, also when
\* patterns matched and the modifiers zeroed every score, the result is
\* severity low with confidence 0.3.
C6_NoNonzeroScoreGivesLow ==
    ( /\ SentimentReturned
      /\ \A i \in 1..Len(sentiment.details.severity_scores) :
             sentiment.details.severity_scores[i].score = Zero )
    => sentiment.severity = "low" /\ sentiment.confidence = <<3, 10>>

ImpactKeywordsOf(label) == Entry(impact_indicators, label).indicators

\* the impact the keyword priority prescribes; "" when no keyword occurs
KeywordPriorityImpact(text) ==
    IF AnyIn(ImpactKeywordsOf("high"), Lower(text)) THEN "high"
    ELSE IF AnyIn(ImpactKeywordsOf("medium"), Lower(text)) THEN "medium"
    ELSE IF AnyIn(ImpactKeywordsOf("low"), Lower(text)) THEN "low"
    ELSE ""

SomeCategoryPattern(text) ==
    \E i \in 1..Len(category_patterns) :
        AnyIn(category_patterns[i].patterns, Lower(text))

\* C7 as stated: for every comment holding an impact keyword, the impact
\* returned by classify_comment is the one the keyword priority prescribes.
C7_KeywordPriorityEveryComment ==
    (ClassificationReturned /\ KeywordPriorityImpact(comment.s) # "")
    => classification.impact_level = KeywordPriorityImpact(comment.s)

\* C7 amended: for every comment in which a category pattern occurs, an impact
\* keyword decides the impact by the priority high, medium, low; a comment
\* with no category pattern gets impact low whatever keywords it holds.
C7_KeywordPriorityWhenCategorised ==
    ClassificationReturned =>
        /\ (SomeCategoryPattern(comment.s) /\ KeywordPriorityImpact(comment.s) # "")
               => classification.impact_level = KeywordPriorityImpact(comment.s)
        /\ ~SomeCategoryPattern(comment.s) => classification.impact_level = "low"

C7_LowKeywordDecides ==
    /\ ClassificationReturned
    /\ classification.category = "logic"
    /\ KeywordPriorityImpact(comment.s) = "low"
    /\ classification.impact_level = "low"

\* C8: none of the three analyzers raises for an input that is a string or
\* None.
C8_AnalyzersNeverRaise ==
    /\ sentiment.status # "raised"
    /\ classification.status # "raised"
    /\ detection.status # "raised"

GenerationFailed == generation.status = "raised"

ClassificationConfidence == RMin(sentiment.confidence, classification.confidence)

\* C9: after a generation failure the record keeps the original text and the
\* severity, category and impact of classification, carries the four fixed
\* fallback texts, and has confidence exactly 0.3.
C9_FallbackKeepsClassification ==
    GenerationFailed =>
        /\ review_comment.original = comment.s
        /\ review_comment.severity = sentiment.severity
        /\ review_comment.category = classification.category
        /\ review_comment.impact_level = classification.impact_level
        /\ review_comment.positive_rephrase
               = "Great work! Here's an opportunity to enhance this further."
        /\ review_comment.explanation
               = "This improvement will enhance code quality and maintainability."
        /\ review_comment.code_suggestion = "// Enhanced code would go here"
        /\ review_comment.learning_objective
               = "Focus on continuous improvement and best practices."
        /\ review_comment.confidence = <<3, 10>>
        /\ pc # "resources" =>
               processed_comments[Len(processed_comments)] = review_comment

C9_FallbackReached ==
    /\ GenerationFailed
    /\ pc = "analyze"
    /\ ClassificationConfidence # <<3, 10>>
    /\ review_comment.severity = "critical"

\* C10 as stated: after a generation failure the confidence is never greater
\* than min(severity confidence, category confidence).
C10_FailureOnlyLowers ==
    GenerationFailed => RLe(review_comment.confidence, ClassificationConfidence)

\* C10 amended: after a generation failure the confidence is not greater than
\* min(severity confidence, category confidence) when that minimum is at
\* least 0.3, and is greater than it when the minimum is below 0.3.
C10_FailureLowersAboveThreshold ==
    GenerationFailed =>
        /\ RLe(<<3, 10>>, ClassificationConfidence)
               => RLe(review_comment.confidence, ClassificationConfidence)
        /\ RLt(ClassificationConfidence, <<3, 10>>)
               => RLt(ClassificationConfidence, review_comment.confidence)

C10_LoweredReached ==
    /\ GenerationFailed
    /\ RLt(<<3, 10>>, ClassificationConfidence)
    /\ RLt(review_comment.confidence, ClassificationConfidence)

-----------------------------------------------------------------------------
(* process_review runs on one thread, one step after another: as long as   *)
(* it has neither returned nor raised, its position advances.  Every step  *)
(* of Next moves pc, and the steps that move pc are the steps of Next.     *)

Positions ==
    {"validate", "detect", "analyze", "generate", "resources", "report", "done",
     "raised"}

Running ==
    \/ pc \in {"validate", "detect", "generate", "resources", "report"}
    \/ pc = "analyze" /\ index <= Len(input_data.review_comments)

Advance == Running /\ pc' \in Positions \ {pc}

FairSpec == Spec /\ WF_pc(Advance)

ValidInput == _validate_input(input_data) = ""

InputComments ==
    [i \in 1..Len(input_data.review_comments) |-> input_data.review_comments[i].s]

Originals(comments) == [i \in 1..Len(comments) |-> comments[i].original]

FallbackText ==
    _fallback_response(ReviewComment("", "low", "general", "low", <<0, 1>>)).explanation

\* C11: over a valid input the run always comes to its end, whatever the
\* generation service does on each comment, and then the processed list
\* holds one record per input comment, in input order, each with `original`
\* equal to that input comment.
C11_EveryCommentProcessed ==
    ValidInput ~> (pc = "done" /\ Originals(processed_comments) = InputComments)

\* a finished run of two comments where generation failed on the first
\* comment only
C11_PartialFailureReached ==
    /\ pc = "done"
    /\ Len(processed_comments) = 2
    /\ processed_comments[1].explanation = FallbackText
    /\ processed_comments[2].explanation # FallbackText
    /\ Originals(processed_comments) = InputComments

-----------------------------------------------------------------------------
(* the three analyzers called on one set of arguments, in any order *)

AnalyzerVocab == { "broken", "should", "logic", "style" }

AnalyzerExamples ==
    { "very broken should",
      "good broken should",
      "logic refactor",
      "style logic refactor",
      "clear clear readable readable confusing confusing name name",
      "   " }

AnalyzerComments ==
    {None} \cup { Str(t) : t \in Texts(AnalyzerVocab, MaxWords) \cup AnalyzerExamples }

AnalyzerCodes ==
    { None, Str(""), Str("x = 1"), Str("def x(): return"), Str("return x"),
      Str("import x; return; module"), Str("struct"),
      Str("private  private  throws"),
      Str("function method"),
      Str("class def def def import import import self.self.self.::") }

AnalyzerFilenames == { None, Str("app.py"), Str("main.go"), Str("x.cs") }

AnalyzerInputs ==
    { << c, code, None >> :
          c \in AnalyzerComments,
          code \in { None, Str("def x(): return"),
                     Str("function method") } }
    \cup { << Str("logic style"), code, fname >> :
               code \in AnalyzerCodes, fname \in AnalyzerFilenames }
    \cup { << Str("clear clear readable readable confusing confusing name name"),
              Str("class def def def import import import self.self.self.::"),
              Str("app.py") >> }

InitAnalyzers ==
    /\ ReviewIdle
    /\ \E inp \in AnalyzerInputs :
           comment = inp[1] /\ code_snippet = inp[2] /\ filename = inp[3]
    /\ sentiment = NotCalled /\ classification = NotCalled /\ detection = NotCalled

NextAnalyzers == AnalyzeSentiment \/ ClassifyComment \/ DetectLanguage

SpecAnalyzers == InitAnalyzers /\ [][NextAnalyzers]_vars

\* the final score maps of classify_comment and of detect_language for the
\* arguments of the state
FinalCategoryScores ==
    LET base_scores == _calculate_category_scores(Lower(comment.s))
    IN  IF Truthy(code_snippet)
        THEN _apply_code_context(base_scores, Lower(code_snippet.s))
        ELSE base_scores

FilenameLabel ==
    IF Truthy(filename) /\ Truthy(_detect_from_filename(filename.s))
    THEN _detect_from_filename(filename.s).s
    ELSE ""

FinalLanguageScores ==
    LET pattern_scores == _analyze_patterns(code_snippet.s)
    IN  [i \in 1..Len(pattern_scores) |->
            [label |-> pattern_scores[i].label,
             score |-> IF pattern_scores[i].label = FilenameLabel
                       THEN RMul(pattern_scores[i].score, FilenameBoost)
                       ELSE pattern_scores[i].score]]

\* position of a label in a pattern table
Declared(table, label) == CHOOSE i \in 1..Len(table) : table[i].label = label

\* label holds the largest score of the map, and every label of the map that
\* the table declares before it holds a strictly smaller score
EarliestMaximal(table, scores, label) ==
    /\ HasKey(scores, label)
    /\ \A j \in 1..Len(scores) :
           /\ RLe(scores[j].score, Get(scores, label))
           /\ Declared(table, scores[j].label) < Declared(table, label)
                  => RLt(scores[j].score, Get(scores, label))

Tied(scores, label) ==
    \E j \in 1..Len(scores) :
        scores[j].label # label /\ scores[j].score = Get(scores, label)

\* C12: in each analyzer the primary label is the label of largest final
\* score that the pattern table declares earliest, after modifiers, code-hint
\* boosts and the filename boost (a result taken from a score map, not a
\* fallback result).
C12_EarliestDeclaredWinsTies ==
    /\ SentimentReturned /\ Len(sentiment.details.severity_scores) > 0
           => EarliestMaximal(severity_patterns, sentiment.details.severity_scores,
                              sentiment.severity)
    /\ ClassificationReturned /\ classification.category # "general"
           => EarliestMaximal(category_patterns, FinalCategoryScores,
                              classification.category)
    /\ DetectionReturned /\ detection.language # "unknown"
           => EarliestMaximal(language_patterns, FinalLanguageScores,
                              detection.language)

\* all three analyzers have returned a label that ties for the largest score:
\* convention and logic after equal code-hint boosts, java and csharp after
\* the filename boost of csharp
C12_TiesReached ==
    /\ SentimentReturned /\ ClassificationReturned /\ DetectionReturned
    /\ comment = Str("logic style") /\ code_snippet = Str("private  private  throws")
    /\ filename = Str("x.cs")
    /\ classification.category = "convention"
    /\ Tied(FinalCategoryScores, "convention")
    /\ detection.language = "java"
    /\ Tied(FinalLanguageScores, "java")
    /\ Get(FinalLanguageScores, "csharp") # Get(_analyze_patterns(code_snippet.s), "csharp")

-----------------------------------------------------------------------------
(* any sequence of calls of the three analyzers on one set of instances *)

MaxCalls == 3

CallInputs ==
    { [analyzer |-> "analyze_sentiment", args |-> << Str(c) >>] :
          c \in { "good but bad", "broken should" } }
    \cup { [analyzer |-> "classify_comment", args |-> << Str("logic style"), code >>] :
               code \in { None, Str("return x") } }
    \cup { [analyzer |-> "classify_comment", args |-> << Str("bad"), None >>] }
    \cup { [analyzer |-> "detect_language", args |-> << Str("struct"), fname >>] :
               fname \in { None, Str("main.go") } }
    \cup { [analyzer |-> "detect_language", args |-> << Str("def f"), None >>] }

InitCalls ==
    /\ ReviewIdle
    /\ comment = None /\ code_snippet = None /\ filename = None
    /\ sentiment = NotCalled /\ classification = NotCalled /\ detection = NotCalled

Called(analyzer, args, result) ==
    calls' = Append(calls, [analyzer |-> analyzer, args |-> args, result |-> result])

\* an analyze_sentiment that keeps the indicators it found on the instance
CallAnalyzeSentimentKeepingIndicators(c) ==
    /\ Len(calls) < MaxCalls
    /\ LET result == analyze_sentiment(c)
       IN  /\ Called("analyze_sentiment", << c >>, result)
           /\ sentiment_analyzer' =
                  [sentiment_analyzer EXCEPT
                      !.positive_indicators = @ \o result.details.positive_indicators]
    /\ UNCHANGED << language_detector, category_classifier, analyzerVars, reviewVars >>

CallAnalyzeSentiment(c) ==
    /\ Len(calls) < MaxCalls
    /\ Called("analyze_sentiment", << c >>, analyze_sentiment(c))
    /\ UNCHANGED << instanceVars, analyzerVars, reviewVars >>

CallClassifyComment(c, code) ==
    /\ Len(calls) < MaxCalls
    /\ Called("classify_comment", << c, code >>, classify_comment(c, code))
    /\ UNCHANGED << instanceVars, analyzerVars, reviewVars >>

CallDetectLanguage(code, fname) ==
    /\ Len(calls) < MaxCalls
    /\ Called("detect_language", << code, fname >>, detect_language(code, fname))
    /\ UNCHANGED << instanceVars, analyzerVars, reviewVars >>

NextCalls ==
    \E call \in CallInputs :
        \/ /\ call.analyzer = "analyze_sentiment"
           /\ CallAnalyzeSentiment(call.args[1])
        \/ /\ call.analyzer = "classify_comment"
           /\ CallClassifyComment(call.args[1], call.args[2])
        \/ /\ call.analyzer = "detect_language"
           /\ CallDetectLanguage(call.args[1], call.args[2])

SpecCalls == InitCalls /\ [][NextCalls]_vars

-----------------------------------------------------------------------------
\* C14 as stated: in every result of analyze_sentiment, also for a comment
\* matching no severity pattern, overall_tone is 'constructive' when the
\* returned positive_indicators and constructive_indicators are both
\* non-empty, 'positive' when only positive_indicators is non-empty, and
\* 'neutral-constructive' when only constructive_indicators is non-empty.
C14_ToneFollowsIndicators ==
    SentimentReturned =>
        LET positive == Len(sentiment.details.positive_indicators) > 0
            constructive == Len(sentiment.details.constructive_indicators) > 0
            tone == sentiment.details.overall_tone
        IN  /\ positive /\ constructive => tone = "constructive"
            /\ positive /\ ~constructive => tone = "positive"
            /\ ~positive /\ constructive => tone = "neutral-constructive"

-----------------------------------------------------------------------------
\* the score _analyze_patterns gives a language for the code of the state
PatternScore(label) == Get(_analyze_patterns(code_snippet.s), label)

\* C15: a language returned by detect_language has a nonzero pattern score,
\* with or without a filename; it is the best language, and the confidence
\* is the best score capped at 1, of the pattern scores in which only the
\* score of the filename's language is multiplied by 1.5.
C15_FilenameOnlyAmplifies ==
    DetectionReturned /\ detection.language # "unknown" =>
        LET pattern_scores == _analyze_patterns(code_snippet.s)
            from_file == FilenameLabel
            Amplified(i) == IF pattern_scores[i].label = from_file
                            THEN RMul(pattern_scores[i].score, <<3, 2>>)
                            ELSE pattern_scores[i].score
            best == Declared(pattern_scores, detection.language)
        IN  /\ RLt(Zero, pattern_scores[best].score)
            /\ \A i \in 1..Len(pattern_scores) : RLe(Amplified(i), Amplified(best))
            /\ detection.confidence = RMin(Amplified(best), One)

\* python is returned for app.py although javascript has the larger pattern
\* score
C15_BoostDecides ==
    /\ DetectionReturned
    /\ filename = Str("app.py")
    /\ detection.language = "python"
    /\ RLt(PatternScore("python"), PatternScore("javascript"))
    /\ detection.confidence = RMul(PatternScore("python"), <<3, 2>>)

-----------------------------------------------------------------------------
OnlyWhitespace(text) == \A i \in 1..Len(text) : IsSpace(text, i)

SupportedLanguages == { language_patterns[i].label : i \in 1..Len(language_patterns) }

\* C16: detect_language returns (unknown, 0.0) when the code is None, empty
\* or whitespace-only, (unknown, 0.1) when it is none of these and no language
\* pattern occurs in it, and a supported language in every other case.
C16_UnknownInExactlyTwoCases ==
    DetectionReturned =>
        IF code_snippet.none \/ OnlyWhitespace(code_snippet.s)
        THEN detection.language = "unknown" /\ detection.confidence = Zero
        ELSE IF NoLanguagePattern(code_snippet.s)
             THEN detection.language = "unknown" /\ detection.confidence = <<1, 10>>
             ELSE detection.language \in SupportedLanguages

\* a whitespace-only fragment, with a filename, has given (unknown, 0.0)
C16_WhitespaceOnlyReached ==
    /\ DetectionReturned
    /\ code_snippet = Str("   ")
    /\ filename = Str("app.py")
    /\ detection.language = "unknown"
    /\ detection.confidence = Zero

-----------------------------------------------------------------------------
TableCategories == { category_patterns[i].label : i \in 1..Len(category_patterns) }

\* C17: classify_comment returns (general, 0.3, low) when no category pattern
\* occurs in the lower-cased comment, with or without a code fragment, and
\* one of the six categories of the pattern table when some pattern occurs.
C17_GeneralExactlyWithoutPattern ==
    ClassificationReturned =>
        IF SomeCategoryPattern(comment.s)
        THEN classification.category \in TableCategories
        ELSE /\ classification.category = "general"
             /\ classification.confidence = <<3, 10>>
             /\ classification.impact_level = "low"

\* a whitespace-only comment classified together with a code fragment that
\* holds code-hint tokens
C17_WhitespaceWithCodeReached ==
    /\ ClassificationReturned
    /\ comment = Str("   ")
    /\ Truthy(code_snippet)
    /\ \E h \in 1..Len(code_hints) : HintMatches(code_hints[h].hints, Lower(code_snippet.s)) > 0
    /\ classification.category = "general"

-----------------------------------------------------------------------------
\* C18: the confidence returned by detect_language and the confidence
\* returned by classify_comment lie in [0, 1], also with capped occurrence
\* counts, compounded context multipliers, code-hint boosts and the filename
\* boost.
C18_ConfidencesInUnitInterval ==
    /\ DetectionReturned
           => RLe(Zero, detection.confidence) /\ RLe(detection.confidence, One)
    /\ ClassificationReturned
           => RLe(Zero, classification.confidence)
              /\ RLe(classification.confidence, One)

\* both caps are at work: the filename boost lifts python's score from below
\* 1 to above 1, and the boosted readability score times 1.5 exceeds 1
C18_CapsReached ==
    /\ DetectionReturned /\ ClassificationReturned
    /\ filename = Str("app.py")
    /\ detection.language = "python"
    /\ detection.confidence = One
    /\ RLt(PatternScore("python"), One)
    /\ RLt(One, RMul(PatternScore("python"), FilenameBoost))
    /\ classification.category = "readability"
    /\ classification.confidence = One
    /\ RLt(MaxValue(_calculate_category_scores(Lower(comment.s))),
           MaxValue(FinalCategoryScores))
    /\ RLt(One, RMul(MaxValue(FinalCategoryScores), <<3, 2>>))

-----------------------------------------------------------------------------
HasEscalationWord(text) == AnyIn(<< "critical", "major", "serious" >>, Lower(text))

\* C19: for a comment holding no impact keyword of any level, the impact
\* follows the category: security high; logic and performance high with an
\* escalation word and medium without; convention low; readability and
\* maintainability their declared typical impact, which is medium.
C19_CategoryDefaultImpact ==
    /\ ClassificationReturned
    /\ classification.category # "general"
    /\ KeywordPriorityImpact(comment.s) = ""
    => LET category == classification.category
           impact == classification.impact_level
       IN  /\ category = "security" => impact = "high"
           /\ category \in {"logic", "performance"}
                  => impact = IF HasEscalationWord(comment.s) THEN "high" ELSE "medium"
           /\ category = "convention" => impact = "low"
           /\ category \in {"readability", "maintainability"}
                  => /\ impact = Entry(category_patterns, category).typical_impact
                     /\ impact = "medium"

\* a performance comment escalated by 'serious', which is no impact keyword
C19_EscalatedReached ==
    /\ ClassificationReturned
    /\ comment = Str("serious slow")
    /\ KeywordPriorityImpact(comment.s) = ""
    /\ HasEscalationWord(comment.s)
    /\ classification.category = "performance"
    /\ classification.impact_level = "high"

-----------------------------------------------------------------------------
\* the number of a category's code-hint tokens occurring in the lower-cased
\* fragment
HintCount(label, code) ==
    LET hints == Entry(code_hints, label).hints
    IN  Cardinality({ k \in 1..Len(hints) : Contains(hints[k], Lower(code)) })

\* C20: with a code fragment, classify_comment works on the comment's score
\* map with each score multiplied by (1 + 0.1 * number of the category's
\* hint tokens in the fragment): the map keeps its categories, none is added
\* and none removed, and the category returned is the best of the rescaled
\* map (general when the comment's map is empty).
C20_CodeOnlyRescales ==
    ClassificationReturned /\ Truthy(code_snippet) =>
        LET base_scores == _calculate_category_scores(Lower(comment.s))
            with_code == _apply_code_context(base_scores, Lower(code_snippet.s))
            Rescaled(i) ==
                RMul(base_scores[i].score,
                     RAdd(One, Rat(HintCount(base_scores[i].label, code_snippet.s), 10)))
        IN  /\ Len(with_code) = Len(base_scores)
            /\ \A i \in 1..Len(base_scores) :
                   /\ with_code[i].label = base_scores[i].label
                   /\ with_code[i].score = Rescaled(i)
            /\ IF Len(base_scores) = 0
               THEN classification.category = "general"
               ELSE /\ HasKey(base_scores, classification.category)
                    /\ \A i \in 1..Len(base_scores) :
                           RLe(Rescaled(i),
                               Rescaled(Declared(base_scores, classification.category)))

\* the fragment decides between convention and logic, which tie without it
C20_CodeChangesWinner ==
    /\ ClassificationReturned
    /\ comment = Str("logic style")
    /\ Truthy(code_snippet)
    /\ HintCount("logic", code_snippet.s) > 0
    /\ HintCount("convention", code_snippet.s) = 0
    /\ MaxKey(_calculate_category_scores(Lower(comment.s))) = "convention"
    /\ classification.category = "logic"

-----------------------------------------------------------------------------
(* SentimentAnalyzer.get_empathy_level_needed, called any number of times *)

\* the values _determine_tone returns and the initial 'neutral'
Tones == { "constructive", "positive", "neutral-constructive", "harsh", "neutral" }

EmpathyLevels == { "maximum", "high", "medium", "low" }

\* the severity looked at before the tone
GetEmpathyLevelSeverityFirst(severity, tone) ==
    IF severity = "critical" THEN "maximum"
    ELSE IF severity = "high" THEN "high"
    ELSE IF tone = "harsh" THEN "maximum"
    ELSE IF severity = "medium" /\ tone \in { "neutral", "neutral-constructive" }
         THEN "medium"
    ELSE "low"

get_empathy_level_needed(severity, tone) ==
    IF severity = "critical" \/ tone = "harsh" THEN "maximum"
    ELSE IF severity = "high" THEN "high"
    ELSE IF severity = "medium" /\ tone \in { "neutral", "neutral-constructive" }
         THEN "medium"
    ELSE "low"

MaxEmpathyCalls == 2

CallGetEmpathyLevelNeeded(severity, tone) ==
    /\ Len(calls) < MaxEmpathyCalls
    /\ Called("get_empathy_level_needed", << severity, tone >>,
              get_empathy_level_needed(severity, tone))
    /\ UNCHANGED << instanceVars, analyzerVars, reviewVars >>

NextEmpathy ==
    \E severity \in SeverityLevel, tone \in Tones :
        CallGetEmpathyLevelNeeded(severity, tone)

SpecEmpathy == InitCalls /\ [][NextEmpathy]_vars

\* C21: every call of get_empathy_level_needed on one of the four severities
\* and one of the five tones returns a level: 'maximum' exactly when the
\* severity is critical or the tone is harsh; 'high' exactly when the severity
\* is high and the tone is not harsh; 'medium' exactly when the severity is
\* medium and the tone is neutral or neutral-constructive; 'low' in every
\* other case.
C21_EmpathyLevelMapping ==
    \A i \in 1..Len(calls) :
        LET severity == calls[i].args[1]
            tone == calls[i].args[2]
            level == calls[i].result
        IN  /\ severity \in SeverityLevel /\ tone \in Tones
            /\ level \in EmpathyLevels
            /\ level = "maximum" <=> (severity = "critical" \/ tone = "harsh")
            /\ level = "high" <=> (severity = "high" /\ tone # "harsh")
            /\ level = "medium" <=>
                   (severity = "medium" /\ tone \in { "neutral", "neutral-constructive" })

\* a harsh comment of high severity got 'maximum', and a positive one of
\* medium severity got 'low'
C21_HarshHighReached ==
    /\ Len(calls) = 2
    /\ calls[1].args = << "high", "harsh" >> /\ calls[1].result = "maximum"
    /\ calls[2].args = << "medium", "positive" >> /\ calls[2].result = "low"

-----------------------------------------------------------------------------
\* the service returned a response holding a text
GenerationSucceeded == generation.status = "returned" /\ ~generation.content.none

\* C22: once the generation service has returned a text for a comment, the
\* comment's record, and the record the orchestrator appended for it, carries
\* the severity that analyze_sentiment returns for the comment, the category
\* and impact that classify_comment returns for the comment and the input's
\* code, and as confidence the smaller of the two confidences.
C22_RecordMergesAnalyzers ==
    GenerationSucceeded =>
        LET record == IF pc = "resources" THEN review_comment
                      ELSE processed_comments[Len(processed_comments)]
            severity_result == analyze_sentiment(Str(record.original))
            category_result == classify_comment(Str(record.original),
                                                input_data.code_snippet)
        IN  /\ record.original = input_data.review_comments[index -
                                     (IF pc = "resources" THEN 0 ELSE 1)].s
            /\ record.severity = severity_result.severity
            /\ record.category = category_result.category
            /\ record.impact_level = category_result.impact_level
            /\ record.confidence = RMin(severity_result.confidence,
                                        category_result.confidence)

\* a finished run whose last record took the category confidence, the smaller
\* of the two, after a parsed response
C22_CategoryConfidenceReached ==
    /\ pc = "done" /\ GenerationSucceeded
    /\ RLt(classification.confidence, sentiment.confidence)
    /\ processed_comments[Len(processed_comments)].confidence
           = classification.confidence
    /\ processed_comments[Len(processed_comments)].explanation = "Loops cost time."

-----------------------------------------------------------------------------
(* ResourceManager.get_resources, called any number of times *)

MaxResourceCalls == 2

\* the four languages of the mappings, a detected language without mappings
\* and 'unknown'
ResourceLanguages == { "python", "javascript", "java", "typescript", "go", "unknown" }

CallGetResources(lang, category) ==
    /\ Len(calls) < MaxResourceCalls
    /\ Called("get_resources", << lang, category >>, get_resources(lang, category))
    /\ UNCHANGED << instanceVars, analyzerVars, reviewVars >>

NextResources ==
    \E lang \in ResourceLanguages, category \in CategoryType :
        CallGetResources(lang, category)

SpecResources == InitCalls /\ [][NextResources]_vars

\* the links the mappings hold for a category under a language
MappedLinks(lang, category) ==
    IF HasLabel(resource_mappings, lang)
       /\ HasLabel(Entry(resource_mappings, lang).categories, category)
    THEN Entry(Entry(resource_mappings, lang).categories, category).links
    ELSE << >>

\* C23 as stated: get_resources returns at most three links, each of them
\* mapped to the requested category under the given language or under python,
\* and when the given language has no links for the category it returns
\* python's links for the category up to the first three (none when python
\* has none).
C23_FallbackUpToThree ==
    \A i \in 1..Len(calls) :
        LET lang == calls[i].args[1]
            category == calls[i].args[2]
            result == calls[i].result
            own == MappedLinks(lang, category)
            default == MappedLinks("python", category)
        IN  /\ Len(result) <= 3
            /\ \A k \in 1..Len(result) :
                   \E j \in 1..Len(own \o default) : (own \o default)[j] = result[k]
            /\ Len(own) = 0 => result = Prefix(default, 3)

-----------------------------------------------------------------------------
(* ReviewComment.__post_init__ on fields given as strings or as enum members *)

\* a python str, and a member of one of the three enums
PyStr(s) == [type |-> "str", value |-> s]
Member(enum, label) == [type |-> enum, value |-> label]

\* SeverityLevel(value), CategoryType(value), ImpactLevel(value): the member
\* holding the value, ValueError when no member holds it
EnumByValue(enum, labels, value) ==
    IF value \in labels THEN Member(enum, value) ELSE Raised("ValueError")

\* if isinstance(field, str): field = Enum(field)
Coerce(enum, labels, field) ==
    IF field.type = "str" THEN EnumByValue(enum, labels, field.value) ELSE field

\* a conversion that falls back to the dataclass defaults for unknown strings
PostInitDefaulting(severity, category, impact_level) ==
    LET Default(enum, labels, field, label) ==
            IF field.type = "str" /\ field.value \notin labels
            THEN Member(enum, label)
            ELSE Coerce(enum, labels, field)
    IN  [status |-> "constructed",
         severity |-> Default("SeverityLevel", SeverityLevel, severity, "medium"),
         category |-> Default("CategoryType", CategoryType, category, "general"),
         impact_level |-> Default("ImpactLevel", ImpactLevel, impact_level, "medium")]

__post_init__(severity, category, impact_level) ==
    LET s == Coerce("SeverityLevel", SeverityLevel, severity)
        c == Coerce("CategoryType", CategoryType, category)
        i == Coerce("ImpactLevel", ImpactLevel, impact_level)
    IN  IF "status" \in DOMAIN s THEN s
        ELSE IF "status" \in DOMAIN c THEN c
        ELSE IF "status" \in DOMAIN i THEN i
        ELSE [status |-> "constructed", severity |-> s, category |-> c,
              impact_level |-> i]

MaxConstructions == 1

SeverityFields ==
    { PyStr(s) : s \in SeverityLevel \cup { "CRITICAL", "urgent", "" } }
    \cup { Member("SeverityLevel", "high") }

CategoryFields ==
    { PyStr(s) : s \in { "logic", "general", "style" } }
    \cup { Member("CategoryType", "security") }

ImpactFields ==
    { PyStr(s) : s \in { "high", "low", "severe" } }
    \cup { Member("ImpactLevel", "medium") }

CallReviewComment(severity, category, impact_level) ==
    /\ Len(calls) < MaxConstructions
    /\ Called("ReviewComment", << severity, category, impact_level >>,
              __post_init__(severity, category, impact_level))
    /\ UNCHANGED << instanceVars, analyzerVars, reviewVars >>

NextConstruct ==
    \E severity \in SeverityFields, category \in CategoryFields,
       impact_level \in ImpactFields :
        CallReviewComment(severity, category, impact_level)

SpecConstruct == InitCalls /\ [][NextConstruct]_vars

\* the field is a string that is no label of the enum
UnknownString(labels, field) == field.type = "str" /\ field.value \notin labels

\* C24: a construction given a string outside the label set of its enum for
\* severity, category or impact_level raises ValueError; every other
\* construction succeeds, and then a field given as a string holds the member
\* of its enum with that label and a field given as a member holds that
\* member, so all three fields hold members of their enums.
C24_UnknownStringsRejected ==
    \A k \in 1..Len(calls) :
        LET severity == calls[k].args[1]
            category == calls[k].args[2]
            impact_level == calls[k].args[3]
            result == calls[k].result
        IN  IF \/ UnknownString(SeverityLevel, severity)
               \/ UnknownString(CategoryType, category)
               \/ UnknownString(ImpactLevel, impact_level)
            THEN result = Raised("ValueError")
            ELSE /\ result.status = "constructed"
                 /\ result.severity = Member("SeverityLevel", severity.value)
                 /\ result.category = Member("CategoryType", category.value)
                 /\ result.impact_level = Member("ImpactLevel", impact_level.value)

\* a construction rejected for its impact string alone, the other two fields
\* being a known string and a member
C24_RejectedReached ==
    /\ Len(calls) = 1
    /\ calls[1].args = << PyStr("critical"), Member("CategoryType", "security"),
                          PyStr("severe") >>
    /\ calls[1].result = Raised("ValueError")

-----------------------------------------------------------------------------
(* the analyzers called on texts that repeat one pattern *)

MaxRepetitionCalls == 2

RECURSIVE Repeated(_, _)
\* n occurrences of a word, each followed by a space
Repeated(word, n) == IF n = 0 THEN "" ELSE word \o " " \o Repeated(word, n - 1)

\* below the cap, at the cap and beyond it
RepetitionCounts(cap) == { cap - 1, cap, cap + 2 }

RepetitionInputs ==
    { [analyzer |-> "analyze_sentiment",
       args |-> << Str(Repeated(word, n) \o "bad") >>] :
          word \in { "should", "terrible" }, n \in RepetitionCounts(SeverityCap) }
    \cup { [analyzer |-> "classify_comment",
            args |-> << Str(Repeated("logic", n) \o "style"), Str("return x") >>] :
               n \in RepetitionCounts(CategoryCap) }
    \cup { [analyzer |-> "detect_language",
            args |-> << Str(Repeated("def", n) \o "let x"), None >>] :
               n \in RepetitionCounts(LanguageCap) }

RepeatAnalyzeSentiment(c) ==
    /\ Len(calls) < MaxRepetitionCalls
    /\ Called("analyze_sentiment", << c >>, analyze_sentiment(c))
    /\ UNCHANGED << instanceVars, analyzerVars, reviewVars >>

RepeatClassifyComment(c, code) ==
    /\ Len(calls) < MaxRepetitionCalls
    /\ Called("classify_comment", << c, code >>, classify_comment(c, code))
    /\ UNCHANGED << instanceVars, analyzerVars, reviewVars >>

RepeatDetectLanguage(code, fname) ==
    /\ Len(calls) < MaxRepetitionCalls
    /\ Called("detect_language", << code, fname >>, detect_language(code, fname))
    /\ UNCHANGED << instanceVars, analyzerVars, reviewVars >>

NextRepetition ==
    \E call \in RepetitionInputs :
        \/ /\ call.analyzer = "analyze_sentiment"
           /\ RepeatAnalyzeSentiment(call.args[1])
        \/ /\ call.analyzer = "classify_comment"
           /\ RepeatClassifyComment(call.args[1], call.args[2])
        \/ /\ call.analyzer = "detect_language"
           /\ RepeatDetectLanguage(call.args[1], call.args[2])

SpecRepetition == InitCalls /\ [][NextRepetition]_vars

Elements(list) == { list[k] : k \in 1..Len(list) }

\* every string an analyzer searches its text for
SearchedFor(analyzer) ==
    IF analyzer = "analyze_sentiment"
    THEN UNION { Elements(severity_patterns[k].patterns) :
                     k \in 1..Len(severity_patterns) }
         \cup Elements(positive_indicators) \cup Elements(constructive_indicators)
         \cup { intensity_modifiers[k][1] : k \in 1..Len(intensity_modifiers) }
    ELSE IF analyzer = "classify_comment"
    THEN UNION { Elements(category_patterns[k].patterns) :
                     k \in 1..Len(category_patterns) }
         \cup UNION { Elements(context_patterns[k].patterns) :
                          k \in 1..Len(context_patterns) }
         \cup UNION { Elements(impact_indicators[k].indicators) :
                          k \in 1..Len(impact_indicators) }
         \cup Elements(EscalationWords)
    ELSE UNION { { Lower(p) : p \in Elements(language_patterns[k].patterns) } :
                     k \in 1..Len(language_patterns) }

\* the cap of the analyzer's occurrence count
CapOf(analyzer) ==
    IF analyzer = "analyze_sentiment" THEN SeverityCap
    ELSE IF analyzer = "classify_comment" THEN CategoryCap
    ELSE LanguageCap

\* the texts differ in the occurrence count of one searched string only,
\* which occurs at least `cap` times in the first and more often in the second
RaisesOnePattern(searched, cap, first, second) ==
    LET differing == { q \in searched : Count(q, first) # Count(q, second) }
    IN  \E p \in searched :
            /\ differing = {p}
            /\ Count(p, first) >= cap
            /\ Count(p, second) > Count(p, first)

\* C25: of two calls of one analyzer, equal in their other arguments, whose
\* texts differ only in how often one pattern occurs, at least 3 times in the one and more often in the other
\* (at least 2 times for classify_comment), both return the same result.
C25_RepetitionBeyondCapIgnored ==
    \A i, j \in 1..Len(calls) :
        /\ i # j
        /\ calls[i].analyzer = calls[j].analyzer
        /\ Tail(calls[i].args) = Tail(calls[j].args)
        /\ RaisesOnePattern(SearchedFor(calls[i].analyzer), CapOf(calls[i].analyzer),
                            Lower(calls[i].args[1].s), Lower(calls[j].args[1].s))
        => calls[j].result = calls[i].result

\* the severity analyzer returned the same scores for three and for five
\* occurrences of 'should', and scores that differ from those for two
C25_BeyondCapReached ==
    /\ Len(calls) = 2
    /\ calls[1].args = << Str(Repeated("should", 3) \o "bad") >>
    /\ calls[2].args = << Str(Repeated("should", 5) \o "bad") >>
    /\ calls[2].result = calls[1].result
    /\ calls[1].result # analyze_sentiment(Str(Repeated("should", 2) \o "bad"))

-----------------------------------------------------------------------------
\* the product the modifier pass multiplies every severity score by:
\* (1 - 0.2 p)(1 - 0.15 c) times the intensity factors found
ModifierFactor(text) ==
    LET found(list) == Len(SelectSeq(list, LAMBDA ind : Contains(ind, Lower(text))))
    IN  RMul(RMul(PositiveFactor(found(positive_indicators)),
                  ConstructiveFactor(found(constructive_indicators))),
             IntensityFactor(Lower(text), 1))

\* label holds a score of the map that is strictly larger than every other
StrictlyHighest(scores, label) ==
    /\ HasKey(scores, label)
    /\ \A k \in 1..Len(scores) :
           scores[k].label # label => RLt(scores[k].score, Get(scores, label))

\* C26: the scores analyze_sentiment returns are the base scores times the
\* modifier product, not clamped: when the product is negative every returned
\* score is negative, and a comment in which critical has the strictly
\* highest base score among several matched severities then gets a lower
\* severity.
C26_ScoresNotClamped ==
    SentimentReturned /\ Len(sentiment.details.severity_scores) > 0 =>
        LET base_scores == _calculate_severity_scores(Lower(comment.s))
            modified_scores == sentiment.details.severity_scores
            factor == ModifierFactor(comment.s)
        IN  /\ Len(modified_scores) = Len(base_scores)
            /\ \A k \in 1..Len(base_scores) :
                   /\ modified_scores[k].label = base_scores[k].label
                   /\ modified_scores[k].score = RMul(base_scores[k].score, factor)
                   /\ RLt(factor, Zero) => RLt(modified_scores[k].score, Zero)
            /\ RLt(factor, Zero) /\ Len(base_scores) > 1
               /\ StrictlyHighest(base_scores, "critical")
                   => sentiment.severity # "critical"

\* six positive indicators around 'broken broken should': critical has the
\* highest base score, both returned scores are negative, medium is returned
C26_HedgedCriticalLoses ==
    /\ SentimentReturned
    /\ comment = Str("good nice great excellent solid clean broken broken should")
    /\ StrictlyHighest(_calculate_severity_scores(Lower(comment.s)), "critical")
    /\ RLt(Get(sentiment.details.severity_scores, "critical"), Zero)
    /\ RLt(Get(sentiment.details.severity_scores, "medium"), Zero)
    /\ sentiment.severity = "medium"

-----------------------------------------------------------------------------
\* C28: when the modifier product (1 - 0.2 p)(1 - 0.15 c) * intensity is
\* strictly positive, analyze_sentiment returns the severity of largest base
\* score, the earliest of the table among equals; when it is strictly
\* negative, it returns a matched severity of lowest base score.
C28_ModifiersKeepOrReverseRanking ==
    SentimentReturned =>
        LET base_scores == _calculate_severity_scores(Lower(comment.s))
            factor == ModifierFactor(comment.s)
        IN  Len(base_scores) > 0 =>
                /\ RLt(Zero, factor)
                       => EarliestMaximal(severity_patterns, base_scores,
                                          sentiment.severity)
                /\ RLt(factor, Zero)
                       => /\ HasKey(base_scores, sentiment.severity)
                          /\ \A k \in 1..Len(base_scores) :
                                 RLe(Get(base_scores, sentiment.severity),
                                     base_scores[k].score)

\* a negative product over three matched severities: low has the highest
\* base score, critical and medium share the lowest, critical is returned
C28_ReversedReached ==
    /\ SentimentReturned
    /\ comment = Str("good nice great excellent solid clean broken should could")
    /\ RLt(ModifierFactor(comment.s), Zero)
    /\ StrictlyHighest(_calculate_severity_scores(Lower(comment.s)), "low")
    /\ sentiment.severity = "critical"

-----------------------------------------------------------------------------
\* not a string, or a string that is empty or holds whitespace only
Blank(v) == v.none \/ OnlyWhitespace(v.s)

\* the inputs with both keys that the claim says are rejected
RejectedInput ==
    /\ input_data.keys = AllKeys
    /\ \/ Blank(input_data.code_snippet)
       \/ Len(input_data.review_comments) = 0
       \/ Len(input_data.review_comments) > max_comments
       \/ \E k \in 1..Len(input_data.review_comments) :
              Blank(input_data.review_comments[k])

\* C29: over an input whose code is blank, whose comment list is empty or
\* longer than max_comments, or one of whose comments, at any position, is
\* blank or no string, process_review goes from validation to raising
\* ValueError only: no language detection, no analysis of any comment, no
\* generation call and no processed comment ever exists.
C29_ValidationBeforeAnalysis ==
    RejectedInput =>
        /\ pc \in { "validate", "raised" }
        /\ pc = "raised" => error = Str("ValueError")
        /\ detection = NotCalled
        /\ sentiment = NotCalled /\ classification = NotCalled
        /\ generation = NotCalled
        /\ review_comment = None /\ processed_comments = << >> /\ report = None

\* ValueError raised for a list whose first comment is valid and whose
\* second is whitespace, nothing analysed
C29_LateInvalidCommentReached ==
    /\ pc = "raised" /\ error = Str("ValueError")
    /\ input_data.code_snippet = Str("x = 1")
    /\ input_data.review_comments = << Str("bad"), Str(" ") >>
    /\ sentiment = NotCalled /\ detection = NotCalled

-----------------------------------------------------------------------------
(* FeedbackGenerator.generate_empathetic_response called on its own *)

MaxResponseLines == 3

ResponseLines ==
    { "Looks fine.", "",
      "POSITIVE_REPHRASE: \"Nice start!\"",
      "EXPLANATION: Loops cost time.",
      "  EXPLANATION: \"Be clear\" ",
      "CODE_IMPROVEMENT: ~~~python",
      "LEARNING_OBJECTIVE:" }

\* the service raises, answers without content, or answers with a text of
\* at most MaxResponseLines lines
ResponseOutcomes ==
    { Raised("APIError"), [status |-> "returned", content |-> None] }
    \cup { [status |-> "returned", content |-> Str(Join("\n", lines))] :
               lines \in Lists(ResponseLines, MaxResponseLines) }

GenerationRecords ==
    { ReviewComment("This is terrible, completely wrong logic",
                    "critical", "logic", "medium", <<3, 17>>),
      ReviewComment("Consider a set here", "low", "performance", "high", <<1, 1>>) }

InitGeneration ==
    /\ _initialize_components
    /\ calls = << >>
    /\ input_data = None /\ pc = "generate" /\ language = None /\ index = 0
    /\ review_comment \in GenerationRecords
    /\ generation = NotCalled
    /\ processed_comments = << >> /\ report = None /\ error = None
    /\ comment = None /\ code_snippet = None /\ filename = None
    /\ sentiment = NotCalled /\ classification = NotCalled /\ detection = NotCalled

NextGeneration == \E outcome \in ResponseOutcomes : Generate(outcome)

SpecGeneration == InitGeneration /\ [][NextGeneration]_vars

\* the stripped lines of the stripped response
ResponseLinesOf(text) ==
    LET lines == Split(Strip(text), "\n")
    IN  [k \in 1..Len(lines) |-> Strip(lines[k])]

\* what the claim says the section of header number h is, given the
\* response's lines: None when no line starts with the header, else the rest
\* of the last line starting with it and the non-empty lines after it, up to
\* the next line starting with a header
ExpectedSection(lines, h) ==
    LET header == SectionHeaders[h].header
        occurrences == { k \in 1..Len(lines) : StartsWith(lines[k], header) }
    IN  IF occurrences = {} THEN None
        ELSE LET last == CHOOSE k \in occurrences : \A j \in occurrences : j <= k
                 following ==
                     { k \in (last + 1)..Len(lines) :
                           \E j \in 1..Len(SectionHeaders) :
                               StartsWith(lines[k], SectionHeaders[j].header) }
                 stop == IF following = {} THEN Len(lines) + 1
                         ELSE CHOOSE k \in following : \A j \in following : k <= j
                 body == SelectSeq(SubSeq(lines, last + 1, stop - 1),
                                   LAMBDA line : line # "")
             IN  Str(Strip(Join("\n",
                     << Strip(Remove(lines[last], header)) >> \o body)))

\* C30: a generation step in which the service returns a text leaves the
\* record's original text, severity, category, impact and confidence as they
\* were; the sections parsed from the text are, for each header, the text
\* from the header's last occurrence up to the next header, lines before the
\* first header being dropped; and the field of a section whose header does
\* not occur holds its fixed default text.
C30_SuccessKeepsClassification ==
    [][ pc = "generate" /\ generation'.status = "returned"
        /\ ~generation'.content.none =>
            \E lines \in { ResponseLinesOf(generation'.content.s) } :
            \E sections \in { _parse_response(Strip(generation'.content.s)) } :
            \E expected \in { [h \in 1..Len(SectionHeaders) |->
                                  ExpectedSection(lines, h)] } :
                /\ review_comment'.original = review_comment.original
                /\ review_comment'.severity = review_comment.severity
                /\ review_comment'.category = review_comment.category
                /\ review_comment'.impact_level = review_comment.impact_level
                /\ review_comment'.confidence = review_comment.confidence
                /\ \A h \in 1..Len(SectionHeaders) :
                       sections[SectionHeaders[h].section] = expected[h]
                /\ expected[1] = None => review_comment'.positive_rephrase
                                             = "Great work! Here's a suggestion."
                /\ expected[2] = None => review_comment'.explanation
                                             = "This will enhance code quality."
                /\ expected[3] = None => review_comment'.code_suggestion
                                             = "// Improved code here"
                /\ expected[4] = None => review_comment'.learning_objective
                                             = "Focus on best practices."
      ]_vars

\* a response with a line before the first header and the explanation
\* header twice: the second explanation is kept, the other three sections
\* hold their defaults, and the confidence 3/17 is still there
C30_RepeatedHeaderReached ==
    /\ pc = "resources"
    /\ generation.status = "returned"
    /\ generation.content = Str("Looks fine.\nEXPLANATION: Loops cost time.\n"
                                \o "  EXPLANATION: \"Be clear\" ")
    /\ review_comment.explanation = "Be clear"
    /\ review_comment.positive_rephrase = "Great work! Here's a suggestion."
    /\ review_comment.code_suggestion = "// Improved code here"
    /\ review_comment.confidence = <<3, 17>>

-----------------------------------------------------------------------------
(* Python floats as IEEE 754 binary64 values.  A significand has 53 bits,  *)
(* more than a machine integer of the checker holds, so naturals are       *)
(* little-endian sequences of 15-bit limbs without leading zero limbs.     *)
(* An operand is bound by a set constructor over its singleton wherever it *)
(* is used more than once, so that it is evaluated once.                    *)

LimbBits == 15
Limb == 2 ^ LimbBits
Precision == 53
\* enough quotient limbs for Precision + 2 bits
QuotientLimbs == (Precision + 2) \div LimbBits + 1

Digit(a, i) == IF i <= Len(a) THEN a[i] ELSE 0

RECURSIVE NTrimTo(_, _)
NTrimTo(a, n) ==
    IF n > 0 /\ a[n] = 0 THEN NTrimTo(a, n - 1) ELSE SubSeq(a, 1, n)

NTrim(a) == CHOOSE r \in { NTrimTo(x, Len(x)) : x \in {a} } : TRUE

RECURSIVE NFromInt(_)
NFromInt(n) == IF n = 0 THEN << >> ELSE << n % Limb >> \o NFromInt(n \div Limb)

RECURSIVE NAddCarry(_, _, _, _)
NAddCarry(a, b, i, carry) ==
    IF i > Len(a) /\ i > Len(b)
    THEN IF carry = 0 THEN << >> ELSE << carry >>
    ELSE CHOOSE r \in { << s % Limb >> \o NAddCarry(a, b, i + 1, s \div Limb) :
                          s \in { Digit(a, i) + Digit(b, i) + carry } } : TRUE

NAdd(a, b) == CHOOSE r \in { NAddCarry(x, y, 1, 0) : x \in {a}, y \in {b} } : TRUE

\* a - b for a >= b
RECURSIVE NSubBorrow(_, _, _, _)
NSubBorrow(a, b, i, borrow) ==
    IF i > Len(a) THEN << >>
    ELSE CHOOSE r \in { IF s < 0 THEN << s + Limb >> \o NSubBorrow(a, b, i + 1, 1)
                        ELSE << s >> \o NSubBorrow(a, b, i + 1, 0) :
                          s \in { a[i] - Digit(b, i) - borrow } } : TRUE

NSub(a, b) ==
    CHOOSE r \in { NTrim(NSubBorrow(x, y, 1, 0)) : x \in {a}, y \in {b} } : TRUE

RECURSIVE NLessFrom(_, _, _)
NLessFrom(a, b, i) ==
    IF i = 0 THEN FALSE
    ELSE IF a[i] # b[i] THEN a[i] < b[i]
    ELSE NLessFrom(a, b, i - 1)

NLess(a, b) ==
    \E x \in {a}, y \in {b} :
        IF Len(x) # Len(y) THEN Len(x) < Len(y) ELSE NLessFrom(x, y, Len(x))

\* a * k for 0 <= k < Limb
RECURSIVE NMulSmallCarry(_, _, _, _)
NMulSmallCarry(a, k, i, carry) ==
    IF i > Len(a) THEN IF carry = 0 THEN << >> ELSE << carry >>
    ELSE CHOOSE r \in { << p % Limb >> \o NMulSmallCarry(a, k, i + 1, p \div Limb) :
                          p \in { a[i] * k + carry } } : TRUE

NMulSmall(a, k) ==
    CHOOSE r \in { NTrim(NMulSmallCarry(x, y, 1, 0)) : x \in {a}, y \in {k} } : TRUE

NShiftLimbs(a, n) ==
    CHOOSE r \in { IF x = << >> THEN << >> ELSE [i \in 1..n |-> 0] \o x :
                     x \in {a} } : TRUE

RECURSIVE NMulFrom(_, _, _)
NMulFrom(a, b, i) ==
    IF i > Len(b) THEN << >>
    ELSE NAdd(NShiftLimbs(NMulSmall(a, b[i]), i - 1), NMulFrom(a, b, i + 1))

NMul(a, b) == CHOOSE r \in { NMulFrom(x, y, 1) : x \in {a}, y \in {b} } : TRUE

\* a * 2^k
NShl(a, k) ==
    CHOOSE r \in { NShiftLimbs(NMulSmall(a, 2 ^ (n % LimbBits)), n \div LimbBits) :
                     n \in {k} } : TRUE

\* the quotient of the limbs 1..i of a, preceded by the remainder rem, by d
RECURSIVE NDivSmallFrom(_, _, _, _)
NDivSmallFrom(a, d, i, rem) ==
    IF i = 0 THEN << >>
    ELSE CHOOSE r \in { Append(NDivSmallFrom(a, d, i - 1, cur % d), cur \div d) :
                          cur \in { rem * Limb + a[i] } } : TRUE

\* a \div 2^k
NShr(a, k) ==
    CHOOSE r \in { NTrim(NDivSmallFrom(high, d, Len(high), 0)) :
                     high \in { SubSeq(a, (k \div LimbBits) + 1, Len(a)) },
                     d \in { 2 ^ (k % LimbBits) } } : TRUE

RECURSIVE SmallBitLength(_)
SmallBitLength(n) == IF n = 0 THEN 0 ELSE 1 + SmallBitLength(n \div 2)

NBitLength(a) ==
    CHOOSE r \in { IF x = << >> THEN 0
                   ELSE (Len(x) - 1) * LimbBits + SmallBitLength(x[Len(x)]) :
                     x \in {a} } : TRUE

NIsOdd(a) == \E x \in {a} : x # << >> /\ x[1] % 2 = 1

\* n more quotient bits of rem / d, for rem < d and n <= LimbBits: the
\* quotient so far is the integer q
RECURSIVE NDivBits(_, _, _, _)
NDivBits(rem, d, q, n) ==
    IF n = 0 THEN [q |-> q, r |-> rem]
    ELSE CHOOSE r \in
             { IF NLess(twice, d)
               THEN NDivBits(twice, d, 2 * q, n - 1)
               ELSE CHOOSE s \in { NDivBits(less, d, 2 * q + 1, n - 1) :
                                     less \in { NSub(twice, d) } } : TRUE :
                 twice \in { NAdd(rem, rem) } } : TRUE

\* n more quotient limbs of rem / d, for rem < d
RECURSIVE NDivLimbs(_, _, _)
NDivLimbs(rem, d, n) ==
    IF n = 0 THEN [q |-> << >>, r |-> rem]
    ELSE CHOOSE r \in
             { CHOOSE s \in { [q |-> Append(rest.q, top.q), r |-> rest.r] :
                                rest \in { NDivLimbs(top.r, d, n - 1) } } : TRUE :
                 top \in { NDivBits(rem, d, 0, LimbBits) } } : TRUE

\* a float is (-1)^neg * m * 2^e with m = 0 or 2^52 <= m < 2^53; the exponent
\* range of binary64 (overflow, subnormal numbers) and the sign of zero are
\* left out: the scores stay between 2^-20 and 2^10
FZero == [neg |-> FALSE, m |-> << >>, e |-> 0]

\* q * 2^e or (q + 1) * 2^e, for q of Precision bits
FRoundUp(neg, q, e, up) ==
    CHOOSE r \in { IF NBitLength(q1) > Precision
                   THEN [neg |-> neg, m |-> NShr(q1, 1), e |-> e + 1]
                   ELSE [neg |-> neg, m |-> q1, e |-> e] :
                     q1 \in { IF up THEN NAdd(q, << 1 >>) ELSE q } } : TRUE

\* m * 2^e for m of more than Precision bits, the k low bits rounded away
FRoundBits(neg, m, e, sticky, k) ==
    CHOOSE r \in
        { CHOOSE s \in
              { FRoundUp(neg, q, e + k,
                         IF NLess(half, low) THEN TRUE
                         ELSE IF NLess(low, half) THEN FALSE
                         ELSE sticky \/ NIsOdd(q)) :
                  low \in { NSub(m, NShl(q, k)) },
                  half \in { NShl(<< 1 >>, k - 1) } } : TRUE :
            q \in { NShr(m, k) } } : TRUE

\* m * 2^e (and a little more when sticky) rounded to nearest, ties to even
FRound(neg, m, e, sticky) ==
    CHOOSE r \in
        { IF x = << >> THEN FZero
          ELSE CHOOSE s \in
                   { IF len <= Precision
                     THEN [neg |-> neg, m |-> NShl(x, Precision - len),
                           e |-> e - (Precision - len)]
                     ELSE FRoundBits(neg, x, e, sticky, len - Precision) :
                       len \in { NBitLength(x) } } : TRUE :
            x \in {m} } : TRUE

\* float(n) for an int n
FInt(n) == FRound(n < 0, NFromInt(IF n < 0 THEN -n ELSE n), 0, FALSE)

FNeg(x) ==
    CHOOSE r \in { IF a.m = << >> THEN a ELSE [a EXCEPT !.neg = ~a.neg] :
                     a \in {x} } : TRUE

\* x + y for x, y # 0 with the significands mx, my aligned at exponent e
FAddAligned(x, y, mx, my, e) ==
    IF x.neg = y.neg THEN FRound(x.neg, NAdd(mx, my), e, FALSE)
    ELSE IF mx = my THEN FZero
    ELSE IF NLess(my, mx) THEN FRound(x.neg, NSub(mx, my), e, FALSE)
    ELSE FRound(y.neg, NSub(my, mx), e, FALSE)

FAdd(x, y) ==
    CHOOSE r \in
        { IF a.m = << >> THEN b
          ELSE IF b.m = << >> THEN a
          ELSE CHOOSE s \in
                   { FAddAligned(a, b, mx, my, IF a.e < b.e THEN a.e ELSE b.e) :
                       mx \in { NShl(a.m, a.e - (IF a.e < b.e THEN a.e ELSE b.e)) },
                       my \in { NShl(b.m, b.e - (IF a.e < b.e THEN a.e ELSE b.e)) }
                   } : TRUE :
            a \in {x}, b \in {y} } : TRUE

FSub(x, y) == FAdd(x, FNeg(y))

FMul(x, y) ==
    CHOOSE r \in
        { IF a.m = << >> \/ b.m = << >> THEN FZero
          ELSE FRound(a.neg # b.neg, NMul(a.m, b.m), a.e + b.e, FALSE) :
            a \in {x}, b \in {y} } : TRUE

\* x / y for x, y # 0: the integer part (0 or 1) and QuotientLimbs limbs of
\* the quotient of the significands, the remainder as the sticky bit
FDivSignificands(x, y, first) ==
    CHOOSE r \in
        { FRound(x.neg # y.neg, NTrim(d.q \o << IF first THEN 1 ELSE 0 >>),
                 x.e - y.e - QuotientLimbs * LimbBits, d.r # << >>) :
            d \in { NDivLimbs(IF first THEN NSub(x.m, y.m) ELSE x.m, y.m,
                              QuotientLimbs) } } : TRUE

\* x / y for y # 0
FDiv(x, y) ==
    CHOOSE r \in
        { IF a.m = << >> THEN FZero
          ELSE FDivSignificands(a, b, ~NLess(a.m, b.m)) :
            a \in {x}, b \in {y} } : TRUE

FMagnitudeLess(x, y) ==
    IF y.m = << >> THEN FALSE
    ELSE IF x.m = << >> THEN TRUE
    ELSE x.e < y.e \/ (x.e = y.e /\ NLess(x.m, y.m))

FLess(x, y) ==
    \E a \in {x}, b \in {y} :
        IF a.neg # b.neg THEN a.neg
        ELSE IF a.neg THEN FMagnitudeLess(b, a)
        ELSE FMagnitudeLess(a, b)

\* min(x, y) of Python: the first argument unless the second is smaller
FMin(x, y) ==
    CHOOSE r \in { IF FLess(b, a) THEN b ELSE a : a \in {x}, b \in {y} } : TRUE

\* the float a decimal literal denotes; the literal is given as the fraction
\* <<n, d>> it stands for
FLiteral(q) == FDiv(FInt(q[1]), FInt(q[2]))

-----------------------------------------------------------------------------
(* SentimentAnalyzer.analyze_sentiment in binary64 arithmetic.  The weights *)
(* and factors of the tables are the decimal literals of the source, kept   *)
(* as fractions; FLiteral gives the float each one denotes.                 *)

\* score = 0.0, then score += weight * occurrences in table order
RECURSIVE Binary64SeverityRawScore(_, _, _, _, _)
Binary64SeverityRawScore(patterns, weight, comment_lower, i, score) ==
    IF i > Len(patterns) THEN score
    ELSE IF Contains(patterns[i], comment_lower)
         THEN LET occurrences ==
                      IntMin(Count(patterns[i], comment_lower), SeverityCap)
              IN  Binary64SeverityRawScore(patterns, weight, comment_lower, i + 1,
                      FAdd(score, FMul(weight, FInt(occurrences))))
         ELSE Binary64SeverityRawScore(patterns, weight, comment_lower, i + 1, score)

\* a score normalized by the pattern count only
Binary64ScoresKeepingWeight(table, comment_lower) ==
    LET raw == [i \in 1..Len(table) |->
                   [label |-> table[i].label,
                    score |-> Binary64SeverityRawScore(
                                  table[i].patterns, FLiteral(table[i].weight),
                                  comment_lower, 1, FZero),
                    config |-> table[i]]]
        scored == SelectSeq(raw, LAMBDA e : FLess(FZero, e.score))
    IN  [i \in 1..Len(scored) |->
            [label |-> scored[i].label,
             score |-> FDiv(scored[i].score,
                            FInt(Len(scored[i].config.patterns)))]]

\* table is self.severity_patterns
Binary64_calculate_severity_scores(table, comment_lower) ==
    LET raw == [i \in 1..Len(table) |->
                   [label |-> table[i].label,
                    score |-> Binary64SeverityRawScore(
                                  table[i].patterns, FLiteral(table[i].weight),
                                  comment_lower, 1, FZero),
                    config |-> table[i]]]
        scored == SelectSeq(raw, LAMBDA e : FLess(FZero, e.score))
    IN  [i \in 1..Len(scored) |->
            [label |-> scored[i].label,
             score |-> FDiv(scored[i].score,
                            FMul(FInt(Len(scored[i].config.patterns)),
                                 FLiteral(scored[i].config.weight)))]]

RECURSIVE Binary64IntensityFactor(_, _, _)
Binary64IntensityFactor(comment_lower, i, intensity_factor) ==
    IF i > Len(intensity_modifiers) THEN intensity_factor
    ELSE IF Contains(intensity_modifiers[i][1], comment_lower)
         THEN Binary64IntensityFactor(comment_lower, i + 1,
                  FMul(intensity_factor, FLiteral(intensity_modifiers[i][2])))
         ELSE Binary64IntensityFactor(comment_lower, i + 1, intensity_factor)

Binary64ModifiedScore(score, positive_count, constructive_count, intensity_factor) ==
    LET s1 == IF positive_count > 0
              THEN FMul(score, FSub(FInt(1), FMul(FLiteral(<<2, 10>>),
                                                  FInt(positive_count))))
              ELSE score
        s2 == IF constructive_count > 0
              THEN FMul(s1, FSub(FInt(1), FMul(FLiteral(<<15, 100>>),
                                               FInt(constructive_count))))
              ELSE s1
    IN  FMul(s2, intensity_factor)

Binary64_apply_modifiers(comment_lower, severity_scores, analysis_details) ==
    LET found_positive ==
            SelectSeq(positive_indicators, LAMBDA ind : Contains(ind, comment_lower))
        found_constructive ==
            SelectSeq(constructive_indicators, LAMBDA ind : Contains(ind, comment_lower))
        found_modifiers ==
            SelectSeq(intensity_modifiers, LAMBDA m : Contains(m[1], comment_lower))
        intensity_factor == Binary64IntensityFactor(comment_lower, 1, FInt(1))
    IN  [modified_scores |->
            [i \in 1..Len(severity_scores) |->
                [label |-> severity_scores[i].label,
                 score |-> Binary64ModifiedScore(severity_scores[i].score,
                                                 Len(found_positive),
                                                 Len(found_constructive),
                                                 intensity_factor)]],
         analysis_details |->
            [analysis_details EXCEPT
                !.positive_indicators = @ \o found_positive,
                !.constructive_indicators = @ \o found_constructive,
                !.intensity_modifiers = @ \o found_modifiers]]

\* max(scores, key=scores.get) over floats: the first key holding the
\* largest value
RECURSIVE Binary64MaxFrom(_, _, _)
Binary64MaxFrom(scores, best, i) ==
    IF i > Len(scores) THEN best
    ELSE IF FLess(scores[best].score, scores[i].score)
         THEN Binary64MaxFrom(scores, i, i + 1)
         ELSE Binary64MaxFrom(scores, best, i + 1)

Binary64_calculate_confidence(severity_scores, analysis_details) ==
    IF Len(severity_scores) = 0 THEN FLiteral(<<3, 10>>)
    ELSE LET max_score == severity_scores[Binary64MaxFrom(severity_scores, 1, 2)].score
             c0 == FMin(FMul(max_score, FInt(2)), FInt(1))
             c1 == IF Len(severity_scores) > 2
                   THEN FMul(c0, FLiteral(<<8, 10>>)) ELSE c0
             c2 == IF Len(analysis_details.positive_indicators) > 0
                      \/ Len(analysis_details.constructive_indicators) > 0
                   THEN FMul(c1, FLiteral(<<11, 10>>)) ELSE c1
         IN  FMin(c2, FInt(1))

Binary64_analyze_sentiment(table, c) ==
    IF c.none THEN Raised("AttributeError")
    ELSE
    LET comment_lower == Lower(c.s)
        details0 == [severity_scores |-> << >>,
                     positive_indicators |-> << >>,
                     constructive_indicators |-> << >>,
                     intensity_modifiers |-> << >>,
                     overall_tone |-> "neutral"]
        severity_scores == Binary64_calculate_severity_scores(table, comment_lower)
        applied == Binary64_apply_modifiers(comment_lower, severity_scores, details0)
        modified_scores == applied.modified_scores
        details1 == applied.analysis_details
    IN  IF Len(modified_scores) = 0
        THEN [status |-> "returned", severity |-> "low",
              confidence |-> FLiteral(<<3, 10>>), details |-> details1]
        ELSE [status |-> "returned",
              severity |-> modified_scores[Binary64MaxFrom(modified_scores, 1, 2)].label,
              confidence |-> Binary64_calculate_confidence(modified_scores, details1),
              details |-> [details1 EXCEPT !.overall_tone = _determine_tone(details1),
                                           !.severity_scores = modified_scores]]

-----------------------------------------------------------------------------
(* analyze_sentiment on an analyzer whose severity weights were replaced *)

\* weights for critical, high, medium, low, as the literals one would write
SeverityWeightVectors ==
    { << <<4, 1>>, <<3, 1>>, <<2, 1>>, <<1, 1>> >>,
      << <<1, 1>>, <<1, 1>>, <<1, 1>>, <<1, 1>> >>,
      << <<3, 2>>, <<1, 2>>, <<8, 1>>, <<16, 1>> >>,
      << <<3, 1>>, <<7, 1>>, <<5, 1>>, <<9, 1>> >>,
      << <<1, 10>>, <<1, 10>>, <<1, 10>>, <<1, 10>> >>,
      << <<7, 10>>, <<3, 10>>, <<1, 10>>, <<1, 1>> >>,
      << <<4, 1>>, <<3, 1>>, <<1, 10>>, <<1, 1>> >> }

WeightComments ==
    { "broken should", "broken garbage trash should better improve",
      "terrible", "bad should could", "broken broken should should",
      "This is terrible, completely wrong logic",
      "extremely very terrible terrible terrible", "hello" }

InitWeights ==
    /\ ReviewIdle
    /\ comment \in { Str(t) : t \in WeightComments }
    /\ code_snippet = None /\ filename = None
    /\ sentiment = NotCalled /\ classification = NotCalled /\ detection = NotCalled

\* severity_patterns[label]['weight'] = w for the four labels; nothing has
\* been analyzed yet
SetSeverityWeights(weights) ==
    /\ sentiment.status = "none"
    /\ sentiment_analyzer = SentimentAnalyzer
    /\ weights # [i \in 1..Len(severity_patterns) |-> severity_patterns[i].weight]
    /\ sentiment_analyzer' =
           [sentiment_analyzer EXCEPT
               !.severity_patterns =
                   [i \in 1..Len(@) |-> [@[i] EXCEPT !.weight = weights[i]]]]
    /\ UNCHANGED << language_detector, category_classifier, calls, analyzerVars,
                    reviewVars >>

Binary64AnalyzeSentiment ==
    /\ sentiment.status = "none"
    /\ sentiment' = Binary64_analyze_sentiment(severity_patterns, comment)
    /\ UNCHANGED << instanceVars, calls, comment, code_snippet, filename,
                    classification, detection, reviewVars >>

NextWeights ==
    \/ \E weights \in SeverityWeightVectors : SetSeverityWeights(weights)
    \/ Binary64AnalyzeSentiment

SpecWeights == InitWeights /\ [][NextWeights]_vars

\* the analyzer with the weights 4.0, 3.0, 2.0, 1.0 of the source returns,
\* for the comment at hand, the severity and the confidence in sentiment
SameAsOriginal ==
    \E original \in { Binary64_analyze_sentiment(
                          SentimentAnalyzer.severity_patterns, comment) } :
        /\ sentiment.severity = original.severity
        /\ sentiment.confidence = original.confidence

\* a weight whose multiples by small integers are exact in binary64: a
\* fraction with a power of two as denominator
ExactWeight(w) == \E k \in 0..4 : w[2] = 2 ^ k

====
